---- MODULE Spec2Model ----
(***************************************************************************)
(* Model of the clinic locator of medigate-ai                              *)
(* (services/clinic_dataset_service.py): the time-of-day parser, the       *)
(* reception-window computations, the search pipeline and the loader; of   *)
(* the dataset builder (scripts/build_dataset.py); and of the calls of the *)
(* search made by app.py and of its wizard.                                *)
(*                                                                         *)
(* Specifications, one per family of runs:                                 *)
(*   SpecParse      one call of _parse_hhmm on an arbitrary short string   *)
(*   SpecRoundTrip  one call of _parse_hhmm on a written time of day       *)
(*   SpecRow        the four status computations of one row at one instant *)
(*   SpecGeo, SpecKeywords, SpecStatus                                     *)
(*                  one call of search_clinics_near_point, over            *)
(*                  coordinates, over keyword lists, over reception hours  *)
(*   SpecSchema     one call of the search over tables of any schema       *)
(*   SpecFrame      one search after another over the same table           *)
(*   SpecLoad       one call of load_clinic_dataset on a file of bytes     *)
(*   SpecBuild      one run of build_dataset.main on two input tables      *)
(*   SpecApp        the searches app.py issues for the keywords it guessed *)
(*   SpecWizard     the script runs of the wizard of app.py, one per event *)
(*                                                                         *)
(* Text is a sequence of one-character strings.  Instants are seconds      *)
(* since Monday 00:00:00 (Asia/Tokyo has no daylight saving, so a day is   *)
(* always 86400 seconds); an instant's date is its day number and its      *)
(* weekday is the day number modulo 7 (Monday = 0).                        *)
(***************************************************************************)
EXTENDS Integers, Sequences, FiniteSets, TLC

VARIABLES
    pc,        \* position of the run: "input" before the call, "done" after
    raw,       \* argument of _parse_hhmm
    parsed,    \* its result
    tod,       \* the time of day and the notation raw was written from
    row,       \* one facility row: its reception-hour cells per weekday
    now,       \* the instant the status is computed for
    soon_close_threshold_min,
    soon_start_threshold_min,
    minutes_to_close,        \* result of _minutes_to_close(row, now)
    reception_status,        \* result of _status_label
    next_reception_start,    \* result of _next_reception_start(row, now)
    next_reception_label,    \* result of _next_start_label
    df,        \* the dataset: its columns and its rows
    query,     \* the arguments of one search
    work_ids,  \* ids of the rows of `work` after the radius, include and
               \* exclude stages of the search
    out,       \* what the search returned or raised
    csv_path,  \* the file load_clinic_dataset is pointed at
    encodings_tried,   \* the encodings read_csv was called with, in order
    loaded,    \* what load_clinic_dataset returned or raised
    fac,       \* build_dataset: the facility master table
    dep,       \* build_dataset: the specialty / reception-hours table
    merged,    \* build_dataset: the merged table it saves
    dept_keywords,   \* app: the specialty keywords guessed for the user
    merge_view,      \* app: the "merge the origins" checkbox
    call_site,       \* app: the call of search_clinics_near_point last made
    session_state,   \* wizard: st.session_state, the keys it holds
    query_params,    \* wizard: st.query_params, the query of the page URL
    GOOGLE_CLOUD_PROJECT,   \* wizard: whether the environment names a project
    pressed          \* wizard: the event the last script runs handled

parseVars == <<raw, parsed, tod>>
rowVars == <<row, now, soon_close_threshold_min, soon_start_threshold_min,
             minutes_to_close, reception_status, next_reception_start,
             next_reception_label>>
searchVars == <<df, query, work_ids, out>>
loadVars == <<csv_path, encodings_tried, loaded>>
buildVars == <<fac, dep, merged>>
appVars == <<dept_keywords, merge_view, call_site>>
wizardVars == <<session_state, query_params, GOOGLE_CLOUD_PROJECT, pressed>>
restVars == <<loadVars, buildVars, appVars, wizardVars>>
vars == <<pc, parseVars, rowVars, searchVars, restVars>>

---------------------------------------------------------------------------
(* Values *)

\* Python's None
None == [k |-> "None"]

\* float("nan"), the missing cell of a table
NaN == [k |-> "NaN"]

\* a str cell; s is the sequence of its characters
Str(s) == [k |-> "str", s |-> s]

\* datetime.time(hh, mm)
Time(hh, mm) == [k |-> "time", hour |-> hh, minute |-> mm]

Digits == {"0", "1", "2", "3", "4", "5", "6", "7", "8", "9"}

\* value of one decimal digit character
DigitVal(ch) ==
    CASE ch = "0" -> 0 [] ch = "1" -> 1 [] ch = "2" -> 2 [] ch = "3" -> 3
      [] ch = "4" -> 4 [] ch = "5" -> 5 [] ch = "6" -> 6 [] ch = "7" -> 7
      [] ch = "8" -> 8 [] ch = "9" -> 9

---------------------------------------------------------------------------
(* _parse_hhmm *)

\* str.isdigit over a whole string: non-empty and only decimal digits.  On
\* the characters of the model this is exactly when int(s) succeeds.
IsInt(s) == Len(s) > 0 /\ \A i \in 1..Len(s) : s[i] \in Digits

RECURSIVE IntOf(_)
\* int(s) for a string of decimal digits
IntOf(s) ==
    IF Len(s) = 0 THEN 0
    ELSE 10 * IntOf(SubSeq(s, 1, Len(s) - 1)) + DigitVal(s[Len(s)])

\* position of the first ch in s at or after position i, or 0
RECURSIVE Find(_, _, _)
Find(s, ch, i) ==
    IF i > Len(s) THEN 0
    ELSE IF s[i] = ch THEN i
    ELSE Find(s, ch, i + 1)

\* s.split(":")[0] and s.split(":")[1], for s that contains a colon
Part0(s) == SubSeq(s, 1, Find(s, ":", 1) - 1)
Part1(s) ==
    LET c1 == Find(s, ":", 1)
        c2 == Find(s, ":", c1 + 1)
    IN  SubSeq(s, c1 + 1, IF c2 = 0 THEN Len(s) ELSE c2 - 1)

\* "".join(ch for ch in s if ch.isdigit())
OnlyDigits(s) == SelectSeq(s, LAMBDA ch : ch \in Digits)

InRange(hh, mm) == 0 <= hh /\ hh <= 23 /\ 0 <= mm /\ mm <= 59

\* ParseDigits without the left-padding of 3 digits
ParseDigits_no_pad(s) ==
    LET d == OnlyDigits(s)
    IN  IF Len(d) = 4
        THEN LET hh == IntOf(SubSeq(d, 1, 2))
                 mm == IntOf(SubSeq(d, 3, 4))
             IN  IF InRange(hh, mm) THEN Time(hh, mm) ELSE None
        ELSE None

\* the digits branch: 3 digits are left-padded with "0", 4 digits are HHMM
ParseDigits(s) ==
    LET d0 == OnlyDigits(s)
        d  == IF Len(d0) = 3 THEN <<"0">> \o d0 ELSE d0
    IN  IF Len(d) = 4
        THEN LET hh == IntOf(SubSeq(d, 1, 2))
                 mm == IntOf(SubSeq(d, 3, 4))
             IN  IF InRange(hh, mm) THEN Time(hh, mm) ELSE None
        ELSE None

\* _parse_hhmm(x) for x None, NaN or a string without surrounding blanks
_parse_hhmm(x) ==
    IF x = None \/ x = NaN THEN None
    ELSE IF Len(x.s) = 0 THEN None
    ELSE IF Find(x.s, ":", 1) # 0
         THEN IF ~ (IsInt(Part0(x.s)) /\ IsInt(Part1(x.s)))
              THEN None                       \* int() raised: except -> None
              ELSE IF InRange(IntOf(Part0(x.s)), IntOf(Part1(x.s)))
                   THEN Time(IntOf(Part0(x.s)), IntOf(Part1(x.s)))
                   ELSE ParseDigits(x.s)      \* out of range: falls through
         ELSE ParseDigits(x.s)

---------------------------------------------------------------------------
(* Instants *)

DaySeconds == 24 * 60 * 60

\* datetime.date() as a day number, datetime.weekday() with Monday = 0
DateOf(t) == t \div DaySeconds
WeekdayOf(t) == DateOf(t) % 7

\* a datetime value
DateTime(t) == [k |-> "datetime", t |-> t]

\* pandas' missing datetime
NaT == [k |-> "NaT"]

\* an int value
IntVal(n) == [k |-> "int", v |-> n]

\* _make_dt(d, t): the instant of time-of-day t on day d
_make_dt(d, t) == d * DaySeconds + t.hour * 3600 + t.minute * 60

---------------------------------------------------------------------------
(* Reception status of one row *)

\* the cell of a column the row does not have
NoCol == [k |-> "NoCol"]

\* _today_cols(now): the start and end columns of now's weekday; a row
\* keeps its reception cells per weekday, row.st[wd] and row.ed[wd]
_today_cols(t) == WeekdayOf(t)

\* RollOver with the move to the next day left out
RollOver_same_day(start_dt, end_dt) == end_dt

\* end_dt of the window that starts at start_dt: an end at or before the
\* start is moved to the next day
RollOver(start_dt, end_dt) ==
    IF end_dt <= start_dt THEN end_dt + DaySeconds ELSE end_dt

\* _minutes_to_close(row, now)
_minutes_to_close(r, t) ==
    LET wd == _today_cols(t)
    IN  IF r.st[wd] = NoCol \/ r.ed[wd] = NoCol THEN None
        ELSE LET st_t == _parse_hhmm(r.st[wd])
                 ed_t == _parse_hhmm(r.ed[wd])
             IN  IF st_t = None \/ ed_t = None THEN None
                 ELSE LET start_dt == _make_dt(DateOf(t), st_t)
                          end_dt == RollOver(start_dt, _make_dt(DateOf(t), ed_t))
                      IN  IF start_dt <= t /\ t <= end_dt
                          THEN LET mins == (end_dt - t) \div 60
                               IN  IntVal(IF mins > 0 THEN mins ELSE 0)
                          ELSE None

\* _status_label(minutes_to_close, soon_close_threshold_min).  The labels
\* stand for the source's "受付時間不明/受付外", "🟠 もうすぐ受付終了" and
\* "🟢 受付中".  A NaN is not None, and NaN <= n is False.
_status_label(m, threshold) ==
    IF m = None THEN "unknown/closed"
    ELSE IF m # NaN /\ m.v <= threshold THEN "closing soon"
    ELSE "open"

\* the loop of _next_reception_start from day offset `offset` on
RECURSIVE NextFrom(_, _, _)
NextFrom(r, t, offset) ==
    IF offset >= 7 THEN None
    ELSE LET d == DateOf(t) + offset
             wd == (WeekdayOf(t) + offset) % 7
         IN  IF r.st[wd] = NoCol \/ r.ed[wd] = NoCol
             THEN NextFrom(r, t, offset + 1)
             ELSE LET st_t == _parse_hhmm(r.st[wd])
                      ed_t == _parse_hhmm(r.ed[wd])
                  IN  IF st_t = None \/ ed_t = None
                      THEN NextFrom(r, t, offset + 1)
                      ELSE LET start_dt == _make_dt(d, st_t)
                               end_dt == RollOver(start_dt, _make_dt(d, ed_t))
                           IN  IF offset = 0
                               THEN IF t < start_dt THEN DateTime(start_dt)
                                    ELSE IF start_dt <= t /\ t <= end_dt THEN None
                                    ELSE NextFrom(r, t, offset + 1)
                               ELSE DateTime(start_dt)

\* _next_reception_start with the scan started at tomorrow
_next_reception_start_from_tomorrow(r, t) == NextFrom(r, t, 1)

\* _next_reception_start(row, now)
_next_reception_start(r, t) == NextFrom(r, t, 0)

\* WEEKDAY_PREFIX: 月 火 水 木 金 土 日
WEEKDAY_PREFIX ==
    [wd \in 0..6 |->
        CASE wd = 0 -> "getsu" [] wd = 1 -> "ka" [] wd = 2 -> "sui"
          [] wd = 3 -> "moku" [] wd = 4 -> "kin" [] wd = 5 -> "do"
          [] wd = 6 -> "nichi"]

\* _weekday_jp(dt)
_weekday_jp(t) == WEEKDAY_PREFIX[WeekdayOf(t)]

DigitChar(n) ==
    CASE n = 0 -> "0" [] n = 1 -> "1" [] n = 2 -> "2" [] n = 3 -> "3"
      [] n = 4 -> "4" [] n = 5 -> "5" [] n = 6 -> "6" [] n = 7 -> "7"
      [] n = 8 -> "8" [] n = 9 -> "9"

\* two-digit, zero-padded decimal of n in 0..99
Pad2(n) == <<DigitChar(n \div 10), DigitChar(n % 10)>>

\* dt.strftime("%H:%M")
StrfHM(t) ==
    LET sec == t % DaySeconds
    IN  Pad2(sec \div 3600) \o <<":">> \o Pad2((sec % 3600) \div 60)

\* IsSoon with the threshold itself excluded
IsSoon_exclusive(delta_min, threshold) == 0 <= delta_min /\ delta_min < threshold

\* 0 <= delta_min <= soon_start_threshold_min
IsSoon(delta_min, threshold) == 0 <= delta_min /\ delta_min <= threshold

\* _next_start_label(next_start, now, soon_start_threshold_min), as the
\* sequence of the label's pieces.  "mamonaku " is the source's "まもなく ",
\* "honjitsu" its "本日", "ashita" its "明日", "youbi" its "曜日", "~" its "〜".
_next_start_label(next_start, t, threshold) ==
    IF next_start = None \/ next_start = NaT THEN <<>>
    ELSE LET delta_min == (next_start.t - t) \div 60
             day == IF DateOf(next_start.t) = DateOf(t) THEN <<"honjitsu">>
                    ELSE IF DateOf(next_start.t) = DateOf(t) + 1 THEN <<"ashita">>
                    ELSE <<_weekday_jp(next_start.t), "youbi">>
             prefix == IF IsSoon(delta_min, threshold)
                       THEN <<"mamonaku ">> ELSE <<>>
         IN  prefix \o day \o <<" ">> \o StrfHM(next_start.t) \o <<"~">>

---------------------------------------------------------------------------
(* Text matching *)

\* Python's `kw in text`
Contains(text, kw) ==
    \E j \in 1..(Len(text) - Len(kw) + 1) : SubSeq(text, j, j + Len(kw) - 1) = kw

\* "|".join(keywords)
RECURSIVE Join(_)
Join(kws) ==
    IF Len(kws) = 0 THEN <<>>
    ELSE IF Len(kws) = 1 THEN kws[1]
    ELSE kws[1] \o <<"|">> \o Join(Tail(kws))

\* the alternatives of a pattern: its pieces between the "|"
Alternatives(pat) ==
    LET bars == {0, Len(pat) + 1} \cup {i \in 1..Len(pat) : pat[i] = "|"}
    IN  { SubSeq(pat, x[1] + 1, x[2] - 1) :
            x \in { y \in bars \X bars :
                      /\ y[1] < y[2]
                      /\ ~ \E c \in bars : y[1] < c /\ c < y[2] } }

\* the regular expression alt, from its element i on, matches text from
\* position j on.  "^" matches only at the start of the text, "." matches
\* any one character, every other character of the model matches itself.
RECURSIVE MatchHere(_, _, _, _)
MatchHere(alt, i, text, j) ==
    IF i > Len(alt) THEN TRUE
    ELSE IF alt[i] = "^" THEN j = 1 /\ MatchHere(alt, i + 1, text, j)
    ELSE /\ j <= Len(text)
         /\ (alt[i] = "." \/ alt[i] = text[j])
         /\ MatchHere(alt, i + 1, text, j + 1)

\* Series.str.contains(pat): re.search(pat, text) finds a match
ReSearch(pat, text) ==
    \E alt \in Alternatives(pat) :
        \E j \in 1..(Len(text) + 1) : MatchHere(alt, 1, text, j)

\* Series.astype(str) of a cell: a missing cell becomes the text "nan"
AsStr(c) == IF c = NaN THEN <<"n", "a", "n">> ELSE c.s

---------------------------------------------------------------------------
(* Distance *)

\* a float cell
Num(v) == [k |-> "num", v |-> v]

\* pd.to_numeric(errors="coerce") of a cell: numbers stay, numeric text is
\* converted, everything else becomes NaN
ToNumeric(c) ==
    IF c = NaN THEN NaN
    ELSE IF c.k = "num" THEN c
    ELSE IF IsInt(c.s) THEN Num(IntOf(c.s))
    ELSE NaN

\* Coordinates are in microdegrees and distances in millimetres.  The
\* origin of the runs is (35.681236, 139.767125).
Origin == [lat |-> 35681236, lng |-> 139767125]

\* _haversine_km(lat1, lng1, lat, lng) with r = 6371.0, tabulated at the
\* points of the model, from the origin and from each of the other points
\* (570 km for any other point)
_haversine_km(lat1, lng1, lat2, lng2) ==
    CASE lat1 = Origin.lat /\ lng1 = Origin.lng /\ lat2 = 35681236 /\ lng2 = 139767125 -> 0
      [] lat1 = Origin.lat /\ lng1 = Origin.lng /\ lat2 = 35685733 /\ lng2 = 139767125 -> 500043
      [] lat1 = Origin.lat /\ lng1 = Origin.lng /\ lat2 = 35681236 /\ lng2 = 139783725 -> 1499325
      [] lat1 = Origin.lat /\ lng1 = Origin.lng /\ lat2 = 35699222 /\ lng2 = 139767125 -> 1999951
      [] lat1 = Origin.lat /\ lng1 = Origin.lng /\ lat2 = 35708216 /\ lng2 = 139767125 -> 3000039
      [] lat1 = 35685733 /\ lng1 = 139767125 /\ lat2 = 35681236 /\ lng2 = 139767125 -> 500043
      [] lat1 = 35685733 /\ lng1 = 139767125 /\ lat2 = 35685733 /\ lng2 = 139767125 -> 0
      [] lat1 = 35685733 /\ lng1 = 139767125 /\ lat2 = 35681236 /\ lng2 = 139783725 -> 1580472
      [] lat1 = 35685733 /\ lng1 = 139767125 /\ lat2 = 35699222 /\ lng2 = 139767125 -> 1499908
      [] lat1 = 35685733 /\ lng1 = 139767125 /\ lat2 = 35708216 /\ lng2 = 139767125 -> 2499995
      [] lat1 = 35681236 /\ lng1 = 139783725 /\ lat2 = 35681236 /\ lng2 = 139767125 -> 1499325
      [] lat1 = 35681236 /\ lng1 = 139783725 /\ lat2 = 35685733 /\ lng2 = 139767125 -> 1580472
      [] lat1 = 35681236 /\ lng1 = 139783725 /\ lat2 = 35681236 /\ lng2 = 139783725 -> 0
      [] lat1 = 35681236 /\ lng1 = 139783725 /\ lat2 = 35699222 /\ lng2 = 139767125 -> 2499455
      [] lat1 = 35681236 /\ lng1 = 139783725 /\ lat2 = 35708216 /\ lng2 = 139767125 -> 3353722
      [] lat1 = 35699222 /\ lng1 = 139767125 /\ lat2 = 35681236 /\ lng2 = 139767125 -> 1999951
      [] lat1 = 35699222 /\ lng1 = 139767125 /\ lat2 = 35685733 /\ lng2 = 139767125 -> 1499908
      [] lat1 = 35699222 /\ lng1 = 139767125 /\ lat2 = 35681236 /\ lng2 = 139783725 -> 2499455
      [] lat1 = 35699222 /\ lng1 = 139767125 /\ lat2 = 35699222 /\ lng2 = 139767125 -> 0
      [] lat1 = 35699222 /\ lng1 = 139767125 /\ lat2 = 35708216 /\ lng2 = 139767125 -> 1000087
      [] lat1 = 35708216 /\ lng1 = 139767125 /\ lat2 = 35681236 /\ lng2 = 139767125 -> 3000039
      [] lat1 = 35708216 /\ lng1 = 139767125 /\ lat2 = 35685733 /\ lng2 = 139767125 -> 2499995
      [] lat1 = 35708216 /\ lng1 = 139767125 /\ lat2 = 35681236 /\ lng2 = 139783725 -> 3353722
      [] lat1 = 35708216 /\ lng1 = 139767125 /\ lat2 = 35699222 /\ lng2 = 139767125 -> 1000087
      [] lat1 = 35708216 /\ lng1 = 139767125 /\ lat2 = 35708216 /\ lng2 = 139767125 -> 0
      [] OTHER -> 570000000

---------------------------------------------------------------------------
(* search_clinics_near_point *)

\* the cell of column c of row r of table d (NoCol when d lacks the column)
ColumnCell(d, r, c) == IF c \in d.cols THEN r[c] ELSE NoCol

\* _to_list(x): None gives [], one string a one-element list
_to_list(x) ==
    IF x = None THEN <<>>
    ELSE IF x.k = "str" THEN <<x.s>>
    ELSE x.v

\* a list of keywords, as an argument
KwList(kws) == [k |-> "list", v |-> kws]

\* lines 296-299: coordinates made numeric, rows without one dropped
NumericCoords(w) ==
    LET conv == [i \in 1..Len(w) |->
                    [w[i] EXCEPT !.lat = ToNumeric(w[i].lat),
                                 !.lng = ToNumeric(w[i].lng)]]
    IN  SelectSeq(conv, LAMBDA r : r.lat # NaN /\ r.lng # NaN)

\* WithinRadius with the boundary excluded
WithinRadius_exclusive(w, radius_km) ==
    SelectSeq(w, LAMBDA r : r.distance_km < radius_km)

\* lines 302-303: the distance column, and the rows within the radius
WithDistance(w, base_lat, base_lng) ==
    [i \in 1..Len(w) |->
        [w[i] EXCEPT !.distance_km =
            _haversine_km(base_lat, base_lng, w[i].lat.v, w[i].lng.v)]]

WithinRadius(w, radius_km) ==
    SelectSeq(w, LAMBDA r : r.distance_km <= radius_km)

\* lines 312-324: the name and specialty text of a row ("" without column)
NameText(r) == IF r.name = NoCol THEN <<>> ELSE AsStr(r.name)
DeptText(r) == IF r.dept = NoCol THEN <<>> ELSE AsStr(r.dept)

\* lines 327-334: the include filter
IncludeDept(w, dept_keyword) ==
    IF Len(_to_list(dept_keyword)) > 0
    THEN SelectSeq(w, LAMBDA r : ReSearch(Join(_to_list(dept_keyword)), DeptText(r)))
    ELSE w

\* lines 337-342: the specialty exclusion
ExcludeDept(w, exclude_dept_keywords) ==
    IF exclude_dept_keywords # None /\ Len(exclude_dept_keywords.v) > 0
    THEN SelectSeq(w, LAMBDA r : ~ ReSearch(Join(exclude_dept_keywords.v), DeptText(r)))
    ELSE w

\* lines 345-350: the name exclusion
ExcludeName(w, exclude_name_keywords) ==
    IF exclude_name_keywords # None /\ Len(exclude_name_keywords.v) > 0
    THEN SelectSeq(w, LAMBDA r : ~ ReSearch(Join(exclude_name_keywords.v), NameText(r)))
    ELSE w

\* the column pandas builds out of the values a row function returned:
\* None among numbers (or datetimes) becomes NaN (or NaT); a column of
\* nothing but None keeps its None
InferColumn(vals, missing) ==
    IF (\E i \in 1..Len(vals) : vals[i] # None)
    THEN [i \in 1..Len(vals) |-> IF vals[i] = None THEN missing ELSE vals[i]]
    ELSE vals

\* WithStatus whose next opening ignores today's window
WithStatus_ignoring_today(w, t, soon_close, soon_start) ==
    LET hours(r) == [st |-> r.st, ed |-> r.ed]
        mins == InferColumn([i \in 1..Len(w) |-> _minutes_to_close(hours(w[i]), t)], NaN)
        nxt == InferColumn([i \in 1..Len(w) |-> NextFrom(hours(w[i]), t, 1)], NaT)
    IN  [i \in 1..Len(w) |->
            [w[i] EXCEPT !.minutes_to_close = mins[i],
                         !.reception_status = _status_label(mins[i], soon_close),
                         !.next_reception_start = nxt[i],
                         !.next_reception_label = _next_start_label(nxt[i], t, soon_start)]]

\* lines 356-366: the status columns
WithStatus(w, t, soon_close, soon_start) ==
    LET hours(r) == [st |-> r.st, ed |-> r.ed]
        mins == InferColumn([i \in 1..Len(w) |-> _minutes_to_close(hours(w[i]), t)], NaN)
        nxt == InferColumn([i \in 1..Len(w) |-> _next_reception_start(hours(w[i]), t)], NaT)
    IN  [i \in 1..Len(w) |->
            [w[i] EXCEPT !.minutes_to_close = mins[i],
                         !.reception_status = _status_label(mins[i], soon_close),
                         !.next_reception_start = nxt[i],
                         !.next_reception_label = _next_start_label(nxt[i], t, soon_start)]]

\* Series.notna()
NotNa(c) == c # None /\ c # NaN /\ c # NaT

\* OnlyAccepting testing `is not None` in place of notna()
OnlyAccepting_not_none(w, only_accepting_now) ==
    IF only_accepting_now THEN SelectSeq(w, LAMBDA r : r.minutes_to_close # None)
    ELSE w

\* lines 369-370: only the rows accepting now
OnlyAccepting(w, only_accepting_now) ==
    IF only_accepting_now THEN SelectSeq(w, LAMBDA r : NotNa(r.minutes_to_close))
    ELSE w

\* _row_dept_priority: index of the first keyword found in the row's
\* specialty text, 999 when none is
RECURSIVE FirstMatch(_, _, _)
FirstMatch(kws, i, text) ==
    IF i > Len(kws) THEN 999
    ELSE IF Len(kws[i]) > 0 /\ Contains(text, kws[i]) THEN i - 1
    ELSE FirstMatch(kws, i + 1, text)

\* _row_dept_priority returning the index of the last keyword found
_row_dept_priority_last_match(r, dept_keyword) ==
    LET kws == _to_list(dept_keyword)
        hits == {i \in 1..Len(kws) : Len(kws[i]) > 0 /\ Contains(DeptText(r), kws[i])}
    IN  IF Len(kws) = 0 THEN 0
        ELSE IF hits = {} THEN 999
        ELSE (CHOOSE i \in hits : \A j \in hits : j <= i) - 1

_row_dept_priority(r, dept_keyword) ==
    IF Len(_to_list(dept_keyword)) > 0
    THEN FirstMatch(_to_list(dept_keyword), 1, DeptText(r))
    ELSE 0

\* _sort_mins with the missing value filled by 0
_sort_mins_none_first(r) == IF NotNa(r.minutes_to_close) THEN r.minutes_to_close.v ELSE 0

\* line 387: minutes_to_close.fillna(10**9).astype(int)
_sort_mins(r) == IF NotNa(r.minutes_to_close) THEN r.minutes_to_close.v ELSE 10^9

\* the sort key (_sort_dept_priority, _sort_mins, distance_km)
SortKey(r, dept_keyword) ==
    <<_row_dept_priority(r, dept_keyword), _sort_mins(r), r.distance_km>>

\* lexicographic order of two keys
KeyLess(a, b) ==
    \/ a[1] < b[1]
    \/ a[1] = b[1] /\ a[2] < b[2]
    \/ a[1] = b[1] /\ a[2] = b[2] /\ a[3] < b[3]

\* sort_values(by=[...], ascending): the rows in ascending key order, rows
\* of equal key in their order in w
RECURSIVE SortValues(_, _)
SortValues(w, dept_keyword) ==
    IF Len(w) <= 1 THEN w
    ELSE LET rest == SortValues(SubSeq(w, 1, Len(w) - 1), dept_keyword)
             x == w[Len(w)]
             n == Cardinality({i \in 1..Len(rest) :
                     ~ KeyLess(SortKey(x, dept_keyword), SortKey(rest[i], dept_keyword))})
         IN  SubSeq(rest, 1, n) \o <<x>> \o SubSeq(rest, n + 1, Len(rest))

\* HeadRows without the `> 0` test: head(limit) for every non-zero limit
\* (a negative limit drops that many rows from the end)
HeadRows_truthy(w, limit) ==
    IF limit > 0 /\ limit < Len(w) THEN SubSeq(w, 1, limit)
    ELSE IF limit < 0 THEN SubSeq(w, 1, IF Len(w) + limit > 0 THEN Len(w) + limit ELSE 0)
    ELSE w

\* lines 393-394: head(limit) when limit > 0
HeadRows(w, limit) ==
    IF limit > 0 /\ limit < Len(w) THEN SubSeq(w, 1, limit) ELSE w

\* a returned table, and the KeyError of a table without coordinates
Ok(w) == [k |-> "ok", rows |-> w]
KeyError == [k |-> "KeyError", rows |-> <<>>]

\* `work = df`: work names the caller's table itself
df_copy_alias(d) == [table |-> d, alias |-> TRUE]

\* line 287, work = df.copy(): work names a new table with the cells of d,
\* and no write into it reaches d
df_copy(d) == [table |-> d, alias |-> FALSE]

\* lines 296-297 written into table d: the two coordinate columns replaced
\* by their numeric conversion.  These are the only writes into the table
\* bound at line 287; line 299 binds work to the new table dropna returns.
NumericInPlace(d) ==
    [d EXCEPT !.rows = [i \in 1..Len(d.rows) |->
        [d.rows[i] EXCEPT !.lat = ToNumeric(d.rows[i].lat),
                          !.lng = ToNumeric(d.rows[i].lng)]]]

\* the caller's table after search_clinics_near_point(d, ...) has run
SourceAfter(d) ==
    IF Len(d.rows) = 0 \/ d.cols = {} THEN d
    ELSE IF ~ df_copy(d).alias THEN d
    ELSE IF "lat" \notin d.cols \/ "lng" \notin d.cols THEN d
    ELSE NumericInPlace(d)

\* the working copy of the table: its rows with the derived columns unset
WorkCopy(d) ==
    [i \in 1..Len(d.rows) |->
        [id |-> d.rows[i].id,
         lat |-> ColumnCell(d, d.rows[i], "lat"),
         lng |-> ColumnCell(d, d.rows[i], "lng"),
         name |-> ColumnCell(d, d.rows[i], "name"),
         dept |-> ColumnCell(d, d.rows[i], "dept"),
         st |-> IF "hours" \in d.cols THEN d.rows[i].st ELSE [wd \in 0..6 |-> NoCol],
         ed |-> IF "hours" \in d.cols THEN d.rows[i].ed ELSE [wd \in 0..6 |-> NoCol],
         distance_km |-> None,
         minutes_to_close |-> None,
         reception_status |-> None,
         next_reception_start |-> None,
         next_reception_label |-> None]]

\* the rows after each stage of search_clinics_near_point(d, base, q)
AfterRadius(d, q) ==
    WithinRadius(WithDistance(NumericCoords(WorkCopy(d)), q.base_lat, q.base_lng),
                 q.radius_km)
AfterInclude(d, q) == IncludeDept(AfterRadius(d, q), q.dept_keyword)
AfterExclude(d, q) ==
    ExcludeName(ExcludeDept(AfterInclude(d, q), q.exclude_dept_keywords),
                q.exclude_name_keywords)

\* search_clinics_near_point(d, ...) run at instant t
search_clinics_near_point(d, q, t, soon_close, soon_start) ==
    IF Len(d.rows) = 0 \/ d.cols = {} THEN Ok(<<>>)
    ELSE IF "lat" \notin d.cols \/ "lng" \notin d.cols THEN KeyError
    ELSE IF Len(AfterRadius(d, q)) = 0 THEN Ok(<<>>)
    ELSE IF Len(AfterExclude(d, q)) = 0 THEN Ok(<<>>)
    ELSE Ok(HeadRows(SortValues(
                    OnlyAccepting(
                        WithStatus(AfterExclude(d, q), t, soon_close, soon_start),
                        q.only_accepting_now),
                    q.dept_keyword),
                 q.limit))

---------------------------------------------------------------------------
(* load_clinic_dataset *)

\* A file is a sequence of bytes, a byte a string of two hex digits.  The
\* bytes of the runs, by their role in the two encodings:
\*   41      the letter A in both
\*   EF      UTF-8: lead byte of a 3-byte character; cp932: unassigned lead
\*   BB, BF  UTF-8: continuation bytes; cp932: half-width katakana
\*   82      UTF-8: continuation byte; cp932: lead byte of a 2-byte character
\*   A0, FF  UTF-8: continuation byte, invalid byte; cp932: single bytes
Utf8Ascii == {"41"}
Utf8Lead3 == {"EF"}
Utf8Continuation == {"BB", "BF", "82", "A0"}
Cp932Single == {"41", "BB", "BF", "A0", "FF"}
Cp932Lead == {"82"}
Cp932Trail == {"EF", "BB", "BF", "82", "A0"}

\* the byte-order marker utf-8-sig skips
BOM == <<"EF", "BB", "BF">>

\* the mark a decoder leaves where it stopped on an invalid sequence
Invalid == <<"invalid">>

\* the characters of b from position i on under UTF-8, each as its bytes
RECURSIVE Utf8Chars(_, _)
Utf8Chars(b, i) ==
    IF i > Len(b) THEN <<>>
    ELSE IF b[i] \in Utf8Ascii THEN <<SubSeq(b, i, i)>> \o Utf8Chars(b, i + 1)
    ELSE IF /\ b[i] \in Utf8Lead3
            /\ i + 2 <= Len(b)
            /\ b[i + 1] \in Utf8Continuation
            /\ b[i + 2] \in Utf8Continuation
         THEN <<SubSeq(b, i, i + 2)>> \o Utf8Chars(b, i + 3)
    ELSE <<Invalid>>

\* the characters of b from position i on under cp932
RECURSIVE Cp932Chars(_, _)
Cp932Chars(b, i) ==
    IF i > Len(b) THEN <<>>
    ELSE IF b[i] \in Cp932Single THEN <<SubSeq(b, i, i)>> \o Cp932Chars(b, i + 1)
    ELSE IF b[i] \in Cp932Lead /\ i + 1 <= Len(b) /\ b[i + 1] \in Cp932Trail
         THEN <<SubSeq(b, i, i + 1)>> \o Cp932Chars(b, i + 2)
    ELSE <<Invalid>>

\* what a call can raise
FileNotFoundError == [k |-> "FileNotFoundError"]
UnicodeDecodeError == [k |-> "UnicodeDecodeError"]
EmptyDataError == [k |-> "EmptyDataError"]

\* bytes.decode(encoding): the text, or UnicodeDecodeError
Decode(b, encoding) ==
    LET body == IF encoding = "utf-8-sig" /\ Len(b) >= 3 /\ SubSeq(b, 1, 3) = BOM
                THEN SubSeq(b, 4, Len(b))
                ELSE b
        chars == IF encoding = "cp932" THEN Cp932Chars(b, 1) ELSE Utf8Chars(body, 1)
    IN  IF Len(chars) > 0 /\ chars[Len(chars)] = Invalid THEN UnicodeDecodeError
        ELSE [k |-> "text", chars |-> chars]

\* pd.read_csv(p, encoding=...): the table read from the decoded text; a
\* file that does not decode, or has no text to take columns from, raises
read_csv(b, encoding) ==
    LET t == Decode(b, encoding)
    IN  IF t = UnicodeDecodeError THEN UnicodeDecodeError
        ELSE IF t.chars = <<>> THEN EmptyDataError
        ELSE [k |-> "DataFrame", encoding |-> encoding, chars |-> t.chars]

\* load_clinic_dataset with the two attempts in the other order
load_clinic_dataset_cp932_first(p) ==
    IF ~ p.exists THEN [result |-> FileNotFoundError, tried |-> <<>>]
    ELSE IF read_csv(p.bytes, "cp932").k = "DataFrame"
         THEN [result |-> read_csv(p.bytes, "cp932"), tried |-> <<"cp932">>]
         ELSE [result |-> read_csv(p.bytes, "utf-8-sig"),
               tried |-> <<"cp932", "utf-8-sig">>]

\* load_clinic_dataset(csv_path): what it returns or raises, and the
\* encodings it called read_csv with
load_clinic_dataset(p) ==
    IF ~ p.exists THEN [result |-> FileNotFoundError, tried |-> <<>>]
    ELSE IF read_csv(p.bytes, "utf-8-sig").k = "DataFrame"
         THEN [result |-> read_csv(p.bytes, "utf-8-sig"), tried |-> <<"utf-8-sig">>]
         ELSE [result |-> read_csv(p.bytes, "cp932"),
               tried |-> <<"utf-8-sig", "cp932">>]

---------------------------------------------------------------------------
(* scripts/build_dataset.py *)

\* DAYS: 月 火 水 木 金 土 日 祝
DAYS == <<"getsu", "ka", "sui", "moku", "kin", "do", "nichi", "shuku">>
DaySet == {DAYS[i] : i \in 1..Len(DAYS)}

\* the code point of a character, which orders Python's strings
CodePoint(c) ==
    CASE c = " " -> 32 [] c = "/" -> 47
      [] c = "0" -> 48 [] c = "1" -> 49 [] c = "2" -> 50 [] c = "3" -> 51
      [] c = "4" -> 52 [] c = "5" -> 53 [] c = "6" -> 54 [] c = "7" -> 55
      [] c = "8" -> 56 [] c = "9" -> 57 [] c = ":" -> 58
      [] c = "N" -> 78 [] c = "a" -> 97 [] c = "h" -> 104 [] c = "n" -> 110
      [] c = "nai" -> 20869 [] c = "hi" -> 30382 [] c = "ka" -> 31185
      [] c = "fu" -> 33178
      [] OTHER -> 65533

\* a < b for str
RECURSIVE StrLess(_, _)
StrLess(a, b) ==
    IF b = <<>> THEN FALSE
    ELSE IF a = <<>> THEN TRUE
    ELSE IF CodePoint(Head(a)) # CodePoint(Head(b))
         THEN CodePoint(Head(a)) < CodePoint(Head(b))
    ELSE StrLess(Tail(a), Tail(b))

\* min() and max() of a non-empty set of str
MinStr(S) == CHOOSE x \in S : \A y \in S : ~ StrLess(y, x)
MaxStr(S) == CHOOSE x \in S : \A y \in S : ~ StrLess(x, y)

\* str.strip()
RECURSIVE Strip(_)
Strip(s) ==
    IF s = <<>> THEN s
    ELSE IF Head(s) = " " THEN Strip(Tail(s))
    ELSE IF s[Len(s)] = " " THEN Strip(SubSeq(s, 1, Len(s) - 1))
    ELSE s

\* str.lower()
Lower(s) == [i \in 1..Len(s) |-> IF s[i] = "N" THEN "n" ELSE s[i]]

\* the values _min_time and _max_time keep: not empty, not "nan", not "0"
TimeVals(series) ==
    {v \in {Strip(series[i]) : i \in 1..Len(series)} :
        v # <<>> /\ Lower(v) # <<"n", "a", "n">> /\ v # <<"0">>}

\* _min_time(series), _max_time(series)
_min_time(series) == IF TimeVals(series) = {} THEN <<>> ELSE MinStr(TimeVals(series))
_max_time(series) == IF TimeVals(series) = {} THEN <<>> ELSE MaxStr(TimeVals(series))

\* lines 53-61: the cell of a reception column of dep after cleaning; a
\* column dep lacks is created empty, a missing cell becomes ""
Cleaned(d, r, day, side) ==
    IF <<day, side>> \notin d.cols THEN <<>>
    ELSE IF r[side][day] = NaN THEN <<>>
    ELSE Strip(r[side][day].s)

\* the rows of dep with a given ID
Group(d, id) == SelectSeq(d.rows, LAMBDA r : r.ID = id)

\* lines 44-50: the specialty names of a group, distinct, sorted, joined
RECURSIVE JoinSorted(_)
JoinSorted(S) ==
    IF S = {} THEN <<>>
    ELSE IF Cardinality(S) = 1 THEN MinStr(S)
    ELSE MinStr(S) \o <<" ", "/", " ">> \o JoinSorted(S \ {MinStr(S)})

dept_agg(d, id) ==
    LET names == {IF Group(d, id)[i].dept = NaN THEN <<>>
                  ELSE Strip(Group(d, id)[i].dept.s) : i \in 1..Len(Group(d, id))}
    IN  JoinSorted(names \ {<<>>})

\* lines 63-68: the reception columns of a group, the minimum of the
\* starts and the maximum of the ends
rec_agg(d, id) ==
    LET g == Group(d, id)
    IN  [st |-> [day \in DaySet |->
                    _min_time([i \in 1..Len(g) |-> Cleaned(d, g[i], day, "st")])],
         ed |-> [day \in DaySet |->
                    _max_time([i \in 1..Len(g) |-> Cleaned(d, g[i], day, "ed")])]]

\* main(): the clinics of fac (機関区分 = 2) left-joined with the two
\* aggregates, coordinates made numeric
main(f, d) ==
    LET clinics == SelectSeq(f, LAMBDA r : Strip(AsStr(r.kikan)) = <<"2">>)
    IN  [i \in 1..Len(clinics) |->
            LET id == clinics[i].ID
                found == Len(Group(d, id)) > 0
            IN  [ID |-> id,
                 lat |-> ToNumeric(clinics[i].lat),
                 lng |-> ToNumeric(clinics[i].lng),
                 dept |-> IF found THEN Str(dept_agg(d, id)) ELSE NaN,
                 st |-> [day \in DaySet |->
                            IF found THEN Str(rec_agg(d, id).st[day]) ELSE NaN],
                 ed |-> [day \in DaySet |->
                            IF found THEN Str(rec_agg(d, id).ed[day]) ELSE NaN]]]

---------------------------------------------------------------------------
(* Inputs of the parser runs *)

MaxRawLen == 5

\* characters of the raw strings: digits, the colon and a letter
RawAlphabet == {"0", "1", "2", "3", "4", "5", "9", ":", "h"}

\* all strings over RawAlphabet of length 0..MaxRawLen
RawStrings == UNION {[1..n -> RawAlphabet] : n \in 0..MaxRawLen}

\* the values of the variables a run does not use
NoRow == [st |-> [wd \in 0..6 |-> NaN], ed |-> [wd \in 0..6 |-> NaN]]

IdleParse == raw = None /\ parsed = None /\ tod = None

IdleRow ==
    /\ row = NoRow
    /\ now = 0
    /\ soon_close_threshold_min = 30
    /\ soon_start_threshold_min = 15
    /\ minutes_to_close = None
    /\ reception_status = ""
    /\ next_reception_start = None
    /\ next_reception_label = <<>>

IdleSearch ==
    /\ df = [cols |-> {}, rows |-> <<>>]
    /\ query = None
    /\ work_ids = None
    /\ out = None

IdleLoad ==
    /\ csv_path = None
    /\ encodings_tried = <<>>
    /\ loaded = None

IdleBuild ==
    /\ fac = <<>>
    /\ dep = [cols |-> {}, rows |-> <<>>]
    /\ merged = None

IdleApp ==
    /\ dept_keywords = None
    /\ merge_view = FALSE
    /\ call_site = "none"

\* a mapping that holds no key
NoKeys == [key \in {} |-> None]

IdleWizard ==
    /\ session_state = NoKeys
    /\ query_params = NoKeys
    /\ GOOGLE_CLOUD_PROJECT = FALSE
    /\ pressed = "none"

\* the variables of the loader, of the builder, of the app and of the wizard
\* are idle in the parser, row and search runs
IdleRest == IdleLoad /\ IdleBuild /\ IdleApp /\ IdleWizard

InitParse ==
    /\ pc = "input"
    /\ raw \in {Str(s) : s \in RawStrings} \cup {None, NaN}
    /\ parsed = None
    /\ tod = None
    /\ IdleRow
    /\ IdleSearch
    /\ IdleRest

\* one call parsed = _parse_hhmm(raw)
ParseStep ==
    /\ pc = "input"
    /\ parsed' = _parse_hhmm(raw)
    /\ pc' = "done"
    /\ UNCHANGED <<raw, tod, rowVars, searchVars>>
    /\ UNCHANGED restVars

NextParse == ParseStep

SpecParse == InitParse /\ [][NextParse]_vars

\* decimal digits of n in 0..99 without and with a leading zero
Dec(n) == IF n < 10 THEN <<DigitChar(n)>> ELSE Pad2(n)

\* the four notations of a time of day: hour written plain or zero-padded,
\* with or without the colon ("9:30", "09:30", "930", "0930")
Notations == {"H:MM", "HH:MM", "HMM", "HHMM"}

Written(form, hh, mm) ==
    CASE form = "H:MM"  -> Dec(hh) \o <<":">> \o Pad2(mm)
      [] form = "HH:MM" -> Pad2(hh) \o <<":">> \o Pad2(mm)
      [] form = "HMM"   -> Dec(hh) \o Pad2(mm)
      [] form = "HHMM"  -> Pad2(hh) \o Pad2(mm)

\* the parser is given a valid time of day written in one of the notations
InitRoundTrip ==
    /\ pc = "input"
    /\ tod \in [hour : 0..23, minute : 0..59, form : Notations]
    /\ raw = Str(Written(tod.form, tod.hour, tod.minute))
    /\ parsed = None
    /\ IdleRow
    /\ IdleSearch
    /\ IdleRest

SpecRoundTrip == InitRoundTrip /\ [][NextParse]_vars

---------------------------------------------------------------------------
(* Inputs of the row-status runs *)

\* a str cell from a string of digits and colons
Cell(chars) == Str(chars)

\* one day's reception cells
Window(st, ed) == [st |-> st, ed |-> ed]

Windows ==
    { Window(Cell(<<"0","9",":","0","0">>), Cell(<<"1","7",":","0","0">>)),
      Window(Cell(<<"2","2",":","0","0">>), Cell(<<"0","2",":","0","0">>)),
      Window(Cell(<<"0",":","0","0">>), Cell(<<"0","0","0","0">>)),
      Window(Cell(<<"h">>), Cell(<<"1","7","0","0">>)),
      Window(NaN, NaN),
      Window(NoCol, NoCol) }

MaxOverride == 2

\* weekly tables: window w0 on every day but those of S, which have w1
Schedules ==
    { [st |-> [wd \in 0..6 |-> IF wd \in S THEN w1.st ELSE w0.st],
       ed |-> [wd \in 0..6 |-> IF wd \in S THEN w1.ed ELSE w0.ed]] :
        w0 \in Windows, w1 \in Windows,
        S \in {T \in SUBSET (0..6) : Cardinality(T) <= MaxOverride} }

\* an instant from its weekday and wall-clock time
At(wd, h, m, s) == wd * DaySeconds + h * 3600 + m * 60 + s

Nows ==
    { At(wd, hms[1], hms[2], hms[3]) :
        wd \in {0, 6},
        hms \in { <<1, 0, 0>>, <<8, 0, 0>>, <<8, 44, 30>>, <<9, 0, 0>>,
                  <<16, 45, 0>>, <<16, 45, 30>>, <<17, 0, 0>>, <<17, 0, 30>>,
                  <<23, 0, 0>> } }

InitRow ==
    /\ pc = "input"
    /\ IdleParse
    /\ row \in Schedules
    /\ now \in Nows
    /\ soon_close_threshold_min \in {15, 30}
    /\ soon_start_threshold_min \in {15, 60}
    /\ minutes_to_close = None
    /\ reception_status = ""
    /\ next_reception_start = None
    /\ next_reception_label = <<>>
    /\ IdleSearch
    /\ IdleRest

\* the four status computations of one row at one instant
EvalRow ==
    /\ pc = "input"
    /\ minutes_to_close' = _minutes_to_close(row, now)
    /\ reception_status' =
            _status_label(minutes_to_close', soon_close_threshold_min)
    /\ next_reception_start' = _next_reception_start(row, now)
    /\ next_reception_label' =
            _next_start_label(next_reception_start', now,
                              soon_start_threshold_min)
    /\ pc' = "done"
    /\ UNCHANGED <<parseVars, row, now, soon_close_threshold_min,
                   soon_start_threshold_min, searchVars>>
    /\ UNCHANGED restVars

NextRow == EvalRow

SpecRow == InitRow /\ [][NextRow]_vars

---------------------------------------------------------------------------
(* Inputs of the search runs *)

MaxRows == 3

\* specialty and name texts; one string stands for one character:
\* 内科, 皮膚科, 心療内科, 精神科, メンタル, 在宅, 訪問
NAIKA == <<"nai", "ka">>
HIFUKA == <<"hi", "fu", "ka">>
SHINRYONAIKA == <<"shin", "ryo", "nai", "ka">>
SEISHINKA == <<"sei", "shin", "ka">>
MENTARU == <<"me", "n", "ta", "ru">>
ZAITAKU == <<"zai", "taku">>
HOUMON == <<"hou", "mon">>
SEP == <<" ", "/", " ">>

\* the same window on every day of the week
AllWeek(w) == [st |-> [wd \in 0..6 |-> w.st], ed |-> [wd \in 0..6 |-> w.ed]]

DayWindow == Window(Cell(<<"0","9",":","0","0">>), Cell(<<"1","7",":","0","0">>))
NightWindow == Window(Cell(<<"2","2",":","0","0">>), Cell(<<"0","2",":","0","0">>))
EarlyWindow == Window(Cell(<<"9","3","0">>), Cell(<<"1","6","5","0">>))
NoWindow == Window(NaN, NaN)

\* a dataset row
Facility(id, lat, lng, name, dept, w) ==
    [id |-> id, lat |-> lat, lng |-> lng, name |-> name, dept |-> dept,
     st |-> AllWeek(w).st, ed |-> AllWeek(w).ed]

AllCols == {"lat", "lng", "name", "dept", "hours"}

\* the tables of at most MaxRows of the candidate rows, in id order
RECURSIVE InOrder(_)
InOrder(S) ==
    IF S = {} THEN <<>>
    ELSE LET r == CHOOSE x \in S : \A y \in S : x.id <= y.id
         IN  <<r>> \o InOrder(S \ {r})

Tables(candidates, colsets) ==
    { [cols |-> c, rows |-> InOrder(S)] :
        c \in colsets,
        S \in {T \in SUBSET candidates : Cardinality(T) <= MaxRows} }

Query(radius_km, dept_keyword, exclude_dept, exclude_name, only, limit) ==
    [base_lat |-> Origin.lat, base_lng |-> Origin.lng,
     radius_km |-> radius_km, dept_keyword |-> dept_keyword,
     exclude_dept_keywords |-> exclude_dept,
     exclude_name_keywords |-> exclude_name,
     only_accepting_now |-> only, limit |-> limit]

\* ids of rows
Ids(w) == [i \in 1..Len(w) |-> w[i].id]

\* the call search_clinics_near_point(df, ...) with the arguments q at the
\* instant now
CallSearch(q) ==
    /\ query' = q
    /\ out' = search_clinics_near_point(df, q, now, soon_close_threshold_min,
                                        soon_start_threshold_min)
    /\ work_ids' =
          IF Len(df.rows) = 0 \/ ~ ({"lat", "lng"} \subseteq df.cols)
          THEN [radius |-> <<>>, include |-> <<>>, exclude |-> <<>>]
          ELSE [radius |-> Ids(AfterRadius(df, q)),
                include |-> Ids(AfterInclude(df, q)),
                exclude |-> Ids(AfterExclude(df, q))]
    /\ df' = SourceAfter(df)
    /\ UNCHANGED <<parseVars, row, now, soon_close_threshold_min,
                   soon_start_threshold_min, minutes_to_close, reception_status,
                   next_reception_start, next_reception_label>>
    /\ UNCHANGED <<loadVars, buildVars, wizardVars>>

\* one call out = search_clinics_near_point(df, ...) with the arguments of
\* the run
Search ==
    /\ pc = "input"
    /\ CallSearch(query)
    /\ pc' = "done"
    /\ UNCHANGED appVars

NextSearch == Search

\* the variables of a search run that the run's Init does not draw
SearchRun ==
    /\ pc = "input"
    /\ IdleRest
    /\ IdleParse
    /\ row = NoRow
    /\ minutes_to_close = None
    /\ reception_status = ""
    /\ next_reception_start = None
    /\ next_reception_label = <<>>
    /\ work_ids = None
    /\ out = None

\* Runs over coordinates and radius.  Points: the origin, 0.5 km, 1.5 km,
\* 2.0 km and 3.0 km away; a missing latitude; a non-numeric longitude.
GeoRows ==
    { Facility(1, Num(35681236), Num(139767125), Str(<<"a">>), Str(NAIKA), DayWindow),
      Facility(2, Str(<<"3","5","6","8","5","7","3","3">>), Num(139767125),
               Str(<<"b">>), Str(HIFUKA), DayWindow),
      Facility(3, Num(35681236), Num(139783725), Str(<<"c">>), Str(NAIKA), DayWindow),
      Facility(4, Num(35699222), Num(139767125), Str(<<"d">>), Str(HIFUKA), DayWindow),
      Facility(5, Num(35708216), Num(139767125), Str(<<"e">>), Str(NAIKA), DayWindow),
      Facility(6, NaN, Num(139767125), Str(<<"f">>), Str(NAIKA), DayWindow),
      Facility(7, Num(35681236), Str(<<"h">>), Str(<<"g">>), Str(NAIKA), DayWindow) }

InitGeo ==
    /\ SearchRun
    /\ df \in Tables(GeoRows, {AllCols})
    /\ query \in { Query(r, kw, None, None, FALSE, lim) :
                     r \in {1000000, 1999951, 2000000},
                     kw \in {None, KwList(<<NAIKA>>)},
                     lim \in {0, 2} }
    /\ now = At(0, 10, 0, 0)
    /\ soon_close_threshold_min = 30
    /\ soon_start_threshold_min = 15

SpecGeo == InitGeo /\ [][NextSearch]_vars

\* Runs over specialty and name texts and the three keyword lists.
KeywordRows ==
    { Facility(1, Num(35681236), Num(139767125), Str(<<"a">>), Str(NAIKA), DayWindow),
      Facility(2, Num(35685733), Num(139767125), Str(<<"b">>), Str(SHINRYONAIKA),
               DayWindow),
      Facility(3, Num(35681236), Num(139783725), Str(ZAITAKU \o <<"c">>), Str(HIFUKA),
               DayWindow),
      Facility(4, Num(35699222), Num(139767125), Str(<<"d">>),
               Str(HIFUKA \o SEP \o NAIKA), DayWindow),
      Facility(5, Num(35681236), Num(139767125), NaN, NaN, DayWindow),
      Facility(6, Num(35685733), Num(139767125), Str(<<"e", "^", "f">>),
               Str(<<"ge", "^", "ka">>), DayWindow) }

InitKeywords ==
    /\ SearchRun
    /\ df \in Tables(KeywordRows, {AllCols, AllCols \ {"name", "dept"}})
    /\ query \in { Query(2000000, kw, xd, xn, FALSE, 0) :
                     kw \in { None, Str(NAIKA), KwList(<<>>), KwList(<<NAIKA>>),
                              KwList(<<NAIKA, HIFUKA>>), KwList(<<HIFUKA, NAIKA>>),
                              KwList(<< <<>>, HIFUKA >>),
                              KwList(<< <<"nai", ".">> >>) },
                     xd \in { None, KwList(<<>>),
                              KwList(<<SHINRYONAIKA, SEISHINKA, MENTARU>>),
                              KwList(<< <<"^", "ka">> >>) },
                     xn \in { None, KwList(<<ZAITAKU, HOUMON>>),
                              KwList(<< <<"^", "f">> >>) } }
    /\ now = At(0, 10, 0, 0)
    /\ soon_close_threshold_min = 30
    /\ soon_start_threshold_min = 15

SpecKeywords == InitKeywords /\ [][NextSearch]_vars

\* Runs over reception hours, the instant, and the options that act on the
\* status columns.
StatusRows ==
    { Facility(1, Num(35681236), Num(139767125), Str(<<"a">>), Str(NAIKA), DayWindow),
      Facility(2, Num(35685733), Num(139767125), Str(<<"b">>), Str(NAIKA), NoWindow),
      Facility(3, Num(35681236), Num(139783725), Str(<<"c">>), Str(HIFUKA), NightWindow),
      Facility(4, Num(35699222), Num(139767125), Str(<<"d">>), Str(HIFUKA), DayWindow),
      Facility(5, Num(35685733), Num(139767125), Str(<<"e">>), Str(NAIKA), EarlyWindow),
      Facility(6, Num(35681236), Num(139767125), Str(<<"f">>), Str(HIFUKA),
               Window(Cell(<<"h">>), Cell(<<"1","7","0","0">>))) }

InitStatus ==
    /\ SearchRun
    /\ df \in Tables(StatusRows, {AllCols, AllCols \ {"hours"}})
    /\ query \in { Query(2000000, kw, None, None, only, lim) :
                     kw \in {None, KwList(<<HIFUKA, NAIKA>>)},
                     only \in BOOLEAN,
                     lim \in {-1, 0, 1, 2} }
    /\ now \in { At(0, 8, 0, 0), At(0, 16, 45, 0), At(0, 16, 45, 30),
                 At(0, 23, 0, 0), At(1, 1, 0, 0) }
    /\ soon_close_threshold_min \in {15, 30}
    /\ soon_start_threshold_min = 15

SpecStatus == InitStatus /\ [][NextSearch]_vars

\* Runs over the table's schema: every subset of the columns, tables with
\* and without rows.
InitSchema ==
    /\ SearchRun
    /\ df \in Tables(GeoRows, SUBSET AllCols)
    /\ query \in { Query(r, None, None, None, only, 0) :
                     r \in {1000000, 2000000}, only \in BOOLEAN }
    /\ now = At(0, 10, 0, 0)
    /\ soon_close_threshold_min = 30
    /\ soon_start_threshold_min = 15

SpecSchema == InitSchema /\ [][NextSearch]_vars

\* Runs of one search after another over the same table.
FrameQueries ==
    { Query(r, kw, None, xn, only, lim) :
        r \in {400000, 2000000},
        kw \in {None, KwList(<<HIFUKA>>)},
        xn \in {None, KwList(<< <<"a">> >>)},
        only \in BOOLEAN,
        lim \in {0, 1} }

\* the caller, holding the table, asks again with other arguments
NewQuery ==
    /\ pc = "done"
    /\ query' \in FrameQueries
    /\ out' = None
    /\ work_ids' = None
    /\ pc' = "input"
    /\ UNCHANGED <<parseVars, rowVars, df>>
    /\ UNCHANGED restVars

NextFrame == Search \/ NewQuery

InitFrame ==
    /\ SearchRun
    /\ df \in Tables(GeoRows, {AllCols, AllCols \ {"lat"}})
    /\ query = Query(400000, None, None, None, FALSE, 0)
    /\ now = At(0, 16, 45, 0)
    /\ soon_close_threshold_min = 30
    /\ soon_start_threshold_min = 15

SpecFrame == InitFrame /\ [][NextFrame]_vars

---------------------------------------------------------------------------
(* Inputs of the loader runs *)

MaxFileLen == 3

FileBytes == {"41", "EF", "BB", "BF", "82", "A0", "FF"}

\* a path with no file behind it, and the files of at most MaxFileLen bytes
Files ==
    {[exists |-> FALSE, bytes |-> <<>>]}
        \cup {[exists |-> TRUE, bytes |-> b] :
                 b \in UNION {[1..n -> FileBytes] : n \in 0..MaxFileLen}}

InitLoad ==
    /\ pc = "input"
    /\ IdleParse
    /\ IdleRow
    /\ IdleSearch
    /\ csv_path \in Files
    /\ encodings_tried = <<>>
    /\ loaded = None
    /\ IdleBuild
    /\ IdleApp
    /\ IdleWizard

\* one call loaded = load_clinic_dataset(csv_path)
Load ==
    /\ pc = "input"
    /\ loaded' = load_clinic_dataset(csv_path).result
    /\ encodings_tried' = load_clinic_dataset(csv_path).tried
    /\ pc' = "done"
    /\ UNCHANGED <<parseVars, rowVars, searchVars, csv_path, buildVars, appVars,
                   wizardVars>>

NextLoad == Load

SpecLoad == InitLoad /\ [][NextLoad]_vars

---------------------------------------------------------------------------
(* Inputs of the builder runs *)

MaxDepRows == 2

\* the reception cells of one row of dep: start and end of the seven
\* weekdays, the holiday cells empty
DepWindows ==
    { Window(Str(<<"9", ":", "0", "0">>), Str(<<"1", "7", ":", "0", "0">>)),
      Window(Str(<<" ", "8", ":", "3", "0">>), Str(<<"1", "2", ":", "0", "0", " ">>)),
      Window(Str(<<"1", "3", ":", "0", "0">>), NaN),
      Window(Str(<<"0">>), Str(<<"1", "8", ":", "0", "0">>)),
      Window(Str(<<"N", "a", "N">>), Str(<<"n", "a", "n">>)),
      Window(NaN, NaN) }

DepRow(id, dept, w) ==
    [ID |-> id, dept |-> dept,
     st |-> [day \in DaySet |-> IF day = "shuku" THEN NaN ELSE w.st],
     ed |-> [day \in DaySet |-> IF day = "shuku" THEN NaN ELSE w.ed]]

DepRows ==
    { DepRow(id, dept, w) :
        id \in {1, 2}, dept \in {Str(NAIKA), Str(HIFUKA)}, w \in DepWindows }

\* the reception columns of dep
HourCols == DaySet \X {"st", "ed"}

\* the facility master: two clinics, one of them without numeric latitude,
\* a clinic dep has no row for, and a facility of another category
FacRows ==
    << [ID |-> 1, kikan |-> Str(<<"2">>), lat |-> Str(<<"3", "5">>),
        lng |-> Str(<<"1", "3", "9">>)],
       [ID |-> 2, kikan |-> Str(<<" ", "2">>), lat |-> Str(<<"h">>),
        lng |-> Str(<<"1", "3", "9">>)],
       [ID |-> 3, kikan |-> Str(<<"2">>), lat |-> NaN, lng |-> NaN],
       [ID |-> 4, kikan |-> Str(<<"1">>), lat |-> Str(<<"3", "5">>),
        lng |-> Str(<<"1", "3", "9">>)] >>

InitBuild ==
    /\ pc = "input"
    /\ IdleParse
    /\ IdleRow
    /\ IdleSearch
    /\ IdleLoad
    /\ IdleApp
    /\ IdleWizard
    /\ fac \in {FacRows, SubSeq(FacRows, 2, 4)}
    /\ dep \in { [cols |-> c, rows |-> r] :
                   c \in {HourCols, HourCols \ {<<"getsu", "ed">>},
                          HourCols \ {<<"shuku", "st">>, <<"shuku", "ed">>}},
                   r \in UNION {[1..n -> DepRows] : n \in 0..MaxDepRows} }
    /\ merged = None

\* one run of main()
Build ==
    /\ pc = "input"
    /\ merged' = main(fac, dep)
    /\ pc' = "done"
    /\ UNCHANGED <<parseVars, rowVars, searchVars, loadVars, fac, dep, appVars,
                   wizardVars>>

NextBuild == Build

SpecBuild == InitBuild /\ [][NextBuild]_vars

---------------------------------------------------------------------------
(* app.py: the calls of the search from render_recommendation_and_clinics *)

\* ホームケア
HOMUKEA == <<"ho", "-", "mu", "ke", "a">>

\* line 417
exclude_name_keywords == KwList(<<ZAITAKU, HOUMON, HOMUKEA>>)

\* _build_exclude_depts returning the three keywords whatever is asked for
_build_exclude_depts_always(kws) == <<SHINRYONAIKA, SEISHINKA, MENTARU>>

\* _build_exclude_depts(dept_keywords)
_build_exclude_depts(kws) ==
    LET asked == IF kws = None THEN <<>> ELSE kws.v
        mental == {SHINRYONAIKA, SEISHINKA, MENTARU}
    IN  IF \E i \in 1..Len(asked) : asked[i] \in mental THEN <<>>
        ELSE <<SHINRYONAIKA, SEISHINKA, MENTARU>>

\* `x or None`, `x if x else None` of a list
OrNone(x) == IF x = <<>> THEN None ELSE KwList(x)

\* lines 462-473: the arguments of the call of the merged view
MergedViewArgs(radius_km, only, limit) ==
    Query(radius_km, dept_keywords, OrNone(_build_exclude_depts(dept_keywords)),
          exclude_name_keywords, only, limit)

\* lines 202-215: the arguments of the call of _render_results_block
ResultsBlockArgs(base_lat, base_lng, radius_km, only, limit) ==
    [Query(radius_km, dept_keywords, OrNone(_build_exclude_depts(dept_keywords)),
           exclude_name_keywords, only, limit)
        EXCEPT !.base_lat = base_lat, !.base_lng = base_lng]

MaxKeywords == 2

\* the keywords the runs draw dept_keywords from
AppKeywords == {NAIKA, HIFUKA, SHINRYONAIKA, SEISHINKA, MENTARU}

InitApp ==
    /\ pc = "render"
    /\ IdleParse
    /\ row = NoRow
    /\ now = At(0, 10, 0, 0)
    /\ soon_close_threshold_min = 30
    /\ soon_start_threshold_min = 15
    /\ minutes_to_close = None
    /\ reception_status = ""
    /\ next_reception_start = None
    /\ next_reception_label = <<>>
    /\ df \in Tables(KeywordRows, {AllCols})
    /\ query = None
    /\ work_ids = None
    /\ out = None
    /\ IdleLoad
    /\ IdleBuild
    /\ IdleWizard
    /\ dept_keywords \in
          {None} \cup {KwList(l) : l \in UNION {[1..n -> AppKeywords] : n \in 0..MaxKeywords}}
    /\ merge_view \in BOOLEAN
    /\ call_site = "none"

\* lines 452-473, merged view: the search from the origin
SearchMergedView ==
    /\ pc = "render"
    /\ merge_view
    /\ CallSearch(MergedViewArgs(2000000, FALSE, 5))
    /\ call_site' = "merged view"
    /\ pc' = IF out'.rows = <<>> THEN "done" ELSE "merged"
    /\ UNCHANGED <<dept_keywords, merge_view>>

\* lines 508-521, merged view: _render_results_block for one of the rows
\* found, from that row's coordinates and with limit 1
ResultsBlockOfRow ==
    /\ pc = "merged"
    /\ \E i \in 1..Len(out.rows) :
          CallSearch(ResultsBlockArgs(out.rows[i].lat.v, out.rows[i].lng.v,
                                      2000000, FALSE, 1))
    /\ call_site' = "block of a row"
    /\ pc' = "done"
    /\ UNCHANGED <<dept_keywords, merge_view>>

\* lines 523-547, tabs: _render_results_block for the origin of a tab
ResultsBlockOfTab ==
    /\ pc = "render"
    /\ ~ merge_view
    /\ CallSearch(ResultsBlockArgs(Origin.lat, Origin.lng, 2000000, FALSE, 5))
    /\ call_site' = "block of a tab"
    /\ pc' = "done"
    /\ UNCHANGED <<dept_keywords, merge_view>>

NextApp == SearchMergedView \/ ResultsBlockOfRow \/ ResultsBlockOfTab

SpecApp == InitApp /\ [][NextApp]_vars

---------------------------------------------------------------------------
(* The wizard of app.py: st.session_state, st.query_params and the steps *)

\* True / False as a value of st.session_state
Bool(b) == [k |-> "bool", b |-> b]

\* m.get(key): the value under key, None for a key the mapping lacks
get(m, key) == IF key \in DOMAIN m THEN m[key] ELSE None

\* m.setdefault(key, v)
setdefault(m, key, v) == IF key \in DOMAIN m THEN m ELSE m @@ (key :> v)

\* m[key] = v
setitem(m, key, v) ==
    [x \in DOMAIN m \cup {key} |-> IF x = key THEN v ELSE m[x]]

\* del m[key]
delitem(m, key) == [x \in DOMAIN m \ {key} |-> m[x]]

\* bool(v) of a value st.session_state.get returned
truthy(v) == v = Bool(TRUE)

\* the eight keys _init_state fills and their defaults
Defaults ==
    [symptom |-> Str(<<>>), additional_answers |-> Str(<<>>),
     followup_questions |-> Str(<<>>), recommendation |-> Str(<<>>),
     disclaimer |-> Str(<<>>), pqrst_notes |-> Str(<<>>),
     step |-> IntVal(1), step3_loaded |-> Bool(FALSE)]

RECURSIVE setdefaults(_, _)
\* the setdefault calls of _init_state for the keys still to fill
setdefaults(m, keys) ==
    IF keys = {} THEN m
    ELSE LET key == CHOOSE x \in keys : TRUE
         IN setdefaults(setdefault(m, key, Defaults[key]), keys \ {key})

\* _init_state() on the session state ss under the URL query qp: the
\* defaults, then the step of the URL for a session without a symptom
_init_state(ss, qp) ==
    LET d == setdefaults(ss, DOMAIN Defaults)
        v == get(qp, "step")
    IN IF v # None /\ IsInt(v.s)
          /\ IntOf(v.s) \in {2, 3}
          /\ Strip(get(d, "symptom").s) = <<>>
       THEN setitem(setitem(d, "step", IntVal(IntOf(v.s))),
                    "_session_expired", Bool(TRUE))
       ELSE d

\* the exception a call of the language model raised
GenerationError == [k |-> "raise", exc |-> "Exception"]

\* what the calls of the language model of one script run return
Generations ==
    [questions : {GenerationError, Str(<<"q">>)},
     recommendation : {GenerationError, Str(<<>>), Str(<<"r">>)},
     disclaimer : {Str(<<>>), Str(<<"d">>)},
     pqrst : {GenerationError, Str(<<"p">>)}]

\* render_recommendation_and_clinics() without a button pressed: the
\* generation of step 3 that runs until step3_loaded
render_recommendation_and_clinics(ss, gen) ==
    IF ~GOOGLE_CLOUD_PROJECT THEN ss
    ELSE IF ss["step3_loaded"] = Bool(TRUE) THEN ss
    ELSE IF gen.recommendation = GenerationError THEN ss
    ELSE LET a == setitem(ss, "recommendation", gen.recommendation)
             b == setitem(a, "disclaimer", gen.disclaimer)
             c == setitem(b, "pqrst_notes",
                          IF gen.pqrst = GenerationError THEN Str(<<>>)
                          ELSE gen.pqrst)
         IN setitem(c, "step3_loaded", Bool(TRUE))

\* main() without a button pressed: the session-expired screen, or the
\* renderer of the step
app_main(ss, gen) ==
    IF truthy(get(ss, "_session_expired")) THEN ss
    ELSE IF ss["step"] = IntVal(3)
         THEN render_recommendation_and_clinics(ss, gen)
         ELSE ss

\* one run of the script: the module-level _init_state(), then main()
ScriptRun(ss, qp, gen) == app_main(_init_state(ss, qp), gen)

\* the handler of a "start over" button up to its st.rerun(): every key
\* deleted, _init_state() under the query as it still is
start_over(qp) == _init_state(NoKeys, qp)

\* the screen the session shows
Expired == truthy(get(session_state, "_session_expired"))

OnStep(n) == ~Expired /\ session_state["step"] = IntVal(n)

---------------------------------------------------------------------------
(* Inputs of the wizard runs *)

\* what the user types into a text area
Typed == {<<>>, <<" ">>, <<"s">>, <<" ", "s">>}

\* the step parameter of the URL a page is opened with, NoKeys for none
UrlQueries ==
    {NoKeys} \cup {[step |-> Str(s)] :
                      s \in {<<>>, <<"1">>, <<"2">>, <<"3">>, <<"x">>}}

wizardFrame ==
    UNCHANGED <<pc, parseVars, rowVars, searchVars, loadVars, buildVars,
                appVars, GOOGLE_CLOUD_PROJECT>>

InitWizard ==
    /\ pc = "wizard"
    /\ IdleParse
    /\ IdleRow
    /\ IdleSearch
    /\ IdleLoad
    /\ IdleBuild
    /\ IdleApp
    /\ GOOGLE_CLOUD_PROJECT \in BOOLEAN
    /\ query_params \in UrlQueries
    /\ session_state \in {ScriptRun(NoKeys, query_params, gen) : gen \in Generations}
    /\ pressed = "none"

\* the page is opened at a URL: a new session, and the script runs
OpenPage ==
    /\ pc = "wizard"
    /\ \E url \in UrlQueries, gen \in Generations :
          /\ query_params' = url
          /\ session_state' = ScriptRun(NoKeys, url, gen)
    /\ pressed' = "open"
    /\ wizardFrame

\* the server loses the session (a restart, another instance): the URL
\* stays, the script runs on an empty session state
SessionLost ==
    /\ pc = "wizard"
    /\ \E gen \in Generations :
          session_state' = ScriptRun(NoKeys, query_params, gen)
    /\ pressed' = "session lost"
    /\ UNCHANGED query_params
    /\ wizardFrame

\* a widget other than the buttons below changes: the script runs again
Rerun ==
    /\ pc = "wizard"
    /\ \E gen \in Generations :
          session_state' = ScriptRun(session_state, query_params, gen)
    /\ pressed' = "widget"
    /\ UNCHANGED query_params
    /\ wizardFrame

\* step 1, lines 299-318: the "next" button of render_symptom_input
SubmitSymptom ==
    /\ pc = "wizard"
    /\ OnStep(1)
    /\ \E symptom \in Typed, gen \in Generations :
          LET ss == _init_state(session_state, query_params)
          IN IF Strip(symptom) = <<>> \/ ~GOOGLE_CLOUD_PROJECT
                \/ gen.questions = GenerationError
             THEN /\ session_state' = ss
                  /\ UNCHANGED query_params
             ELSE LET a == setitem(ss, "symptom", Str(Strip(symptom)))
                      b == setitem(a, "followup_questions", gen.questions)
                      c == setitem(b, "step", IntVal(2))
                      qp == setitem(query_params, "step", Str(<<"2">>))
                  IN /\ query_params' = qp
                     /\ session_state' = ScriptRun(c, qp, gen)
    /\ pressed' = "next (step 1)"
    /\ wizardFrame

\* step 2, lines 339-343: the "back" button
Back ==
    /\ pc = "wizard"
    /\ OnStep(2)
    /\ \E gen \in Generations :
          LET ss == _init_state(session_state, query_params)
              qp == delitem(query_params, "step")
          IN /\ query_params' = qp
             /\ session_state' = ScriptRun(setitem(ss, "step", IntVal(1)), qp, gen)
    /\ pressed' = "back"
    /\ wizardFrame

\* step 2, lines 345-349: the "next" button
SubmitAnswers ==
    /\ pc = "wizard"
    /\ OnStep(2)
    /\ \E additional_answers \in Typed, gen \in Generations :
          LET ss == _init_state(session_state, query_params)
              a == setitem(ss, "additional_answers",
                           Str(Strip(additional_answers)))
              b == setitem(a, "step", IntVal(3))
              qp == setitem(query_params, "step", Str(<<"3">>))
          IN /\ query_params' = qp
             /\ session_state' = ScriptRun(b, qp, gen)
    /\ pressed' = "next (step 2)"
    /\ wizardFrame

\* step 3 shows its results once the recommendation is generated
ResultsShown ==
    /\ OnStep(3)
    /\ GOOGLE_CLOUD_PROJECT
    /\ session_state["step3_loaded"] = Bool(TRUE)

\* step 3, lines 258-269: the specialist search of one clinic card caches
\* its answer in the session state
SearchSpecialist ==
    /\ pc = "wizard"
    /\ ResultsShown
    /\ session_state' =
          setitem(_init_state(session_state, query_params),
                  "specialist_1", Str(<<"w">>))
    /\ pressed' = "specialist search"
    /\ UNCHANGED query_params
    /\ wizardFrame

\* step 3, lines 557-563: the "start over" button, then the rerun
StartOverStep3 ==
    /\ pc = "wizard"
    /\ ResultsShown
    /\ \E gen \in Generations :
          LET qp0 == query_params
              ss == start_over(qp0)
              qp == delitem(qp0, "step")
          IN /\ query_params' = qp
             /\ session_state' = ScriptRun(ss, qp, gen)
    /\ pressed' = "start over (step 3)"
    /\ wizardFrame

\* the session-expired screen, lines 570-581: the "start over" button,
\* then the rerun
StartOverExpired ==
    /\ pc = "wizard"
    /\ Expired
    /\ \E gen \in Generations :
          LET ss == start_over(query_params)
              qp == NoKeys
          IN /\ query_params' = qp
             /\ session_state' = ScriptRun(ss, qp, gen)
    /\ pressed' = "start over (expired)"
    /\ wizardFrame

NextWizard ==
    \/ OpenPage
    \/ SessionLost
    \/ Rerun
    \/ SubmitSymptom
    \/ Back
    \/ SubmitAnswers
    \/ SearchSpecialist
    \/ StartOverStep3
    \/ StartOverExpired

SpecWizard == InitWizard /\ [][NextWizard]_vars

---------------------------------------------------------------------------
(* Claims on the reception status of one row (SpecRow) *)

\* the parsed time of a cell, None for a cell that is absent or unparseable
CellTime(c) == IF c = NoCol THEN None ELSE _parse_hhmm(c)

\* seconds since midnight of a parsed time
SecOfDay(tm) == tm.hour * 3600 + tm.minute * 60

\* both cells of weekday wd are present and parse
HasWindow(r, wd) == CellTime(r.st[wd]) # None /\ CellTime(r.ed[wd]) # None

\* start and end instants of the window of the day at `offset` days from t
WinStart(r, t, offset) ==
    (DateOf(t) + offset) * DaySeconds
        + SecOfDay(CellTime(r.st[(WeekdayOf(t) + offset) % 7]))
WinEnd(r, t, offset) ==
    LET e == (DateOf(t) + offset) * DaySeconds
                + SecOfDay(CellTime(r.ed[(WeekdayOf(t) + offset) % 7]))
    IN  IF e <= WinStart(r, t, offset) THEN e + DaySeconds ELSE e

\* C1: when yesterday's window has its end time before its start time and
\* now lies before that window's rolled-over end (yesterday's end time, on
\* today's date), minutes_to_close is the whole minutes from now to that
\* end, and not None.
C1_MidnightWindowStillOpen ==
    pc = "done" =>
        LET y == (WeekdayOf(now) + 6) % 7
        IN  (/\ HasWindow(row, y)
             /\ SecOfDay(CellTime(row.ed[y])) < SecOfDay(CellTime(row.st[y]))
             /\ now < DateOf(now) * DaySeconds + SecOfDay(CellTime(row.ed[y])))
            => minutes_to_close =
                 IntVal((DateOf(now) * DaySeconds
                            + SecOfDay(CellTime(row.ed[y])) - now) \div 60)

\* C2: minutes_to_close is floor((end - now) / 1 minute), and >= 0, exactly
\* when both of today's times parse and start <= now <= end (end moved
\* 24h forward when end <= start); in every other case it is None.
C2_MinutesToClose ==
    pc = "done" =>
        IF /\ HasWindow(row, WeekdayOf(now))
           /\ WinStart(row, now, 0) <= now
           /\ now <= WinEnd(row, now, 0)
        THEN /\ minutes_to_close = IntVal((WinEnd(row, now, 0) - now) \div 60)
             /\ minutes_to_close.v >= 0
        ELSE minutes_to_close = None

\* the spec's example: 09:00-17:00 at 16:45 gives 15
C2_Witness ==
    /\ pc = "done"
    /\ row.st[WeekdayOf(now)] = Cell(<<"0","9",":","0","0">>)
    /\ row.ed[WeekdayOf(now)] = Cell(<<"1","7",":","0","0">>)
    /\ now % DaySeconds = 16 * 3600 + 45 * 60
    /\ minutes_to_close = IntVal(15)

\* C6: next_reception_start is today's start when today has a window and
\* now is before it, None when now is inside today's window, and otherwise
\* the start of the first of the next six days with a parseable window
\* (None if there is none).
C6_NextOpening ==
    pc = "done" =>
        LET later == {o \in 1..6 : HasWindow(row, (WeekdayOf(now) + o) % 7)}
            first == CHOOSE o \in later : \A o2 \in later : o <= o2
        IN  IF HasWindow(row, WeekdayOf(now)) /\ now < WinStart(row, now, 0)
            THEN next_reception_start = DateTime(WinStart(row, now, 0))
            ELSE IF HasWindow(row, WeekdayOf(now)) /\ now <= WinEnd(row, now, 0)
            THEN next_reception_start = None
            ELSE IF later = {} THEN next_reception_start = None
            ELSE next_reception_start = DateTime(WinStart(row, now, first))

\* after today's window has passed, the next opening is found three days on
C6_Witness ==
    /\ pc = "done"
    /\ HasWindow(row, WeekdayOf(now))
    /\ now > WinEnd(row, now, 0)
    /\ ~ HasWindow(row, (WeekdayOf(now) + 1) % 7)
    /\ ~ HasWindow(row, (WeekdayOf(now) + 2) % 7)
    /\ next_reception_start # None
    /\ DateOf(next_reception_start.t) = DateOf(now) + 3

\* C7: the label is empty when there is no next opening; otherwise it is
\* [imminent prefix] day-qualifier " HH:MM~", with the prefix present iff
\* 0 <= floor(minutes to the opening) <= soon_start_threshold_min, the
\* qualifier "today" iff the opening is on now's date, "tomorrow" iff it
\* is one day later, and the weekday name otherwise.
C7_NextOpeningLabel ==
    pc = "done" =>
        IF next_reception_start = None THEN next_reception_label = <<>>
        ELSE LET nxt == next_reception_start.t
                 lab == next_reception_label
                 soon == /\ 0 <= (nxt - now) \div 60
                         /\ (nxt - now) \div 60 <= soon_start_threshold_min
                 body == IF soon THEN Tail(lab) ELSE lab
                 n == Len(body)
             IN  /\ Len(lab) >= 8
                 /\ (lab[1] = "mamonaku ") <=> soon
                 /\ (SubSeq(body, 1, n - 7) = <<"honjitsu">>)
                        <=> DateOf(nxt) = DateOf(now)
                 /\ (SubSeq(body, 1, n - 7) = <<"ashita">>)
                        <=> DateOf(nxt) = DateOf(now) + 1
                 /\ DateOf(nxt) \notin {DateOf(now), DateOf(now) + 1}
                        => SubSeq(body, 1, n - 7)
                             = <<WEEKDAY_PREFIX[DateOf(nxt) % 7], "youbi">>
                 /\ body[n - 6] = " " /\ body[n - 3] = ":" /\ body[n] = "~"
                 /\ 10 * DigitVal(body[n - 5]) + DigitVal(body[n - 4])
                        = (nxt % DaySeconds) \div 3600
                 /\ 10 * DigitVal(body[n - 2]) + DigitVal(body[n - 1])
                        = ((nxt % DaySeconds) % 3600) \div 60

\* the spec's example: 09:00-17:00 at 08:00 gives "today 09:00~"
C7_Witness ==
    /\ pc = "done"
    /\ now % DaySeconds = 8 * 3600
    /\ next_reception_start = DateTime(DateOf(now) * DaySeconds + 9 * 3600)
    /\ next_reception_label = <<"honjitsu", " ", "0", "9", ":", "0", "0", "~">>

---------------------------------------------------------------------------
(* Claims on the parser (SpecParse, SpecRoundTrip) *)

\* s is H:MM or HH:MM with hour 0..23 and minute 0..59
ValidColonForm(s) ==
    /\ Len(s) \in {4, 5}
    /\ s[Len(s) - 2] = ":"
    /\ IsInt(SubSeq(s, 1, Len(s) - 3))
    /\ IsInt(SubSeq(s, Len(s) - 1, Len(s)))
    /\ InRange(IntOf(SubSeq(s, 1, Len(s) - 3)),
               IntOf(SubSeq(s, Len(s) - 1, Len(s))))

\* s is HMM or HHMM, digits only, with hour 0..23 and minute 0..59
ValidNumericForm(s) ==
    /\ Len(s) \in {3, 4}
    /\ IsInt(s)
    /\ InRange(IntOf(SubSeq(s, 1, Len(s) - 2)),
               IntOf(SubSeq(s, Len(s) - 1, Len(s))))

\* C4: every input that is neither a valid colon form nor a valid purely
\* numeric 3- or 4-digit form parses to None.
C4_MalformedIsNone ==
    (pc = "done" /\ raw \notin {None, NaN}) =>
        ((~ ValidColonForm(raw.s) /\ ~ ValidNumericForm(raw.s)) => parsed = None)

\* C5: a time of day written as H:MM, HH:MM, HMM or HHMM parses to that
\* hour and minute.
C5_RoundTrip ==
    (pc = "done" /\ tod # None) => parsed = Time(tod.hour, tod.minute)

\* the spec's example: "930" parses to 09:30
C5_Witness ==
    /\ pc = "done"
    /\ tod # None
    /\ raw = Str(<<"9", "3", "0">>)
    /\ parsed = Time(9, 30)

---------------------------------------------------------------------------
(* Claims on the search (SpecGeo, SpecKeywords, SpecStatus) *)

\* a coordinate cell holds a number, as a float or as numeric text
IsNumericCell(c) == c # NaN /\ (c.k = "num" \/ IsInt(c.s))
CoordOf(c) == IF c.k = "num" THEN c.v ELSE IntOf(c.s)

\* dataset row r has both coordinates and lies within the query's radius
InRadius(r) ==
    /\ IsNumericCell(r.lat)
    /\ IsNumericCell(r.lng)
    /\ _haversine_km(query.base_lat, query.base_lng, CoordOf(r.lat), CoordOf(r.lng))
          <= query.radius_km

\* the dataset row with the given id
DatasetRow(id) == CHOOSE r \in {df.rows[i] : i \in 1..Len(df.rows)} : r.id = id

\* C3: in every returned row the status is "unknown/closed" when
\* minutes_to_close is absent, "closing soon" when it is between 0 and the
\* threshold, and "open" when it is above the threshold.
C3_StatusLabel ==
    (pc = "done" /\ out.k = "ok") =>
        \A i \in 1..Len(out.rows) :
            LET m == out.rows[i].minutes_to_close
                label == out.rows[i].reception_status
            IN  IF ~ NotNa(m) THEN label = "unknown/closed"
                ELSE IF 0 <= m.v /\ m.v <= soon_close_threshold_min
                     THEN label = "closing soon"
                     ELSE label = "open"

\* C8: every returned row has numeric coordinates and lies within the
\* radius (boundary included); the radius stage keeps exactly the dataset
\* rows that do; the result is empty when there is none.
C8_WithinRadius ==
    (pc = "done" /\ out.k = "ok") =>
        /\ \A i \in 1..Len(out.rows) :
              /\ InRadius(DatasetRow(out.rows[i].id))
              /\ out.rows[i].lat.k = "num" /\ out.rows[i].lng.k = "num"
              /\ out.rows[i].distance_km <= query.radius_km
        /\ work_ids.radius = Ids(SelectSeq(df.rows, InRadius))
        /\ (~ \E j \in 1..Len(df.rows) : InRadius(df.rows[j])) => out.rows = <<>>

\* the spec's example: of rows at 0.5, 1.5 and 3.0 km, radius 2.0 km keeps
\* the first two
C8_Witness ==
    /\ pc = "done"
    /\ Ids(df.rows) = <<2, 3, 5>>
    /\ query.radius_km = 2000000
    /\ out.k = "ok"
    /\ Ids(out.rows) = <<2, 3>>

\* the specialty text and the name of the dataset row with the given id, as
\* the filters read them
SpecialtyOf(id) ==
    IF "dept" \in df.cols THEN AsStr(DatasetRow(id).dept) ELSE <<>>
NameOf(id) ==
    IF "name" \in df.cols THEN AsStr(DatasetRow(id).name) ELSE <<>>

\* some keyword of the list occurs in the text as a literal substring
AnyIn(kws, text) == \E i \in 1..Len(kws) : Contains(text, kws[i])

\* C9: with a non-empty keyword list the include filter keeps exactly the
\* rows whose specialty text contains a keyword as a literal substring, and
\* every returned row contains one; with an empty list it keeps every row.
C9_IncludeFilter ==
    (pc = "done" /\ out.k = "ok") =>
        LET kws == IF query.dept_keyword = None THEN <<>>
                   ELSE IF query.dept_keyword.k = "str" THEN <<query.dept_keyword.s>>
                   ELSE query.dept_keyword.v
        IN  IF Len(kws) > 0
            THEN /\ work_ids.include =
                      SelectSeq(work_ids.radius, LAMBDA id : AnyIn(kws, SpecialtyOf(id)))
                 /\ \A i \in 1..Len(out.rows) : AnyIn(kws, SpecialtyOf(out.rows[i].id))
            ELSE work_ids.include = work_ids.radius

\* C10: no returned row has a specialty text containing an excluded
\* specialty keyword, or a name containing an excluded name keyword.
C10_ExcludeFilters ==
    (pc = "done" /\ out.k = "ok") =>
        \A i \in 1..Len(out.rows) :
            /\ query.exclude_dept_keywords # None =>
                  ~ AnyIn(query.exclude_dept_keywords.v, SpecialtyOf(out.rows[i].id))
            /\ query.exclude_name_keywords # None =>
                  ~ AnyIn(query.exclude_name_keywords.v, NameOf(out.rows[i].id))

\* the reception-hour cells of the dataset row with the given id, as the
\* status functions read them
HoursOf(id) ==
    IF "hours" \in df.cols
    THEN [st |-> DatasetRow(id).st, ed |-> DatasetRow(id).ed]
    ELSE [st |-> [wd \in 0..6 |-> NoCol], ed |-> [wd \in 0..6 |-> NoCol]]

\* the elements of a sequence
Range(s) == {s[i] : i \in 1..Len(s)}

\* the rows that pass the three keyword filters and are accepting at `now`
AcceptingIds ==
    {id \in Range(work_ids.exclude) : _minutes_to_close(HoursOf(id), now) # None}

\* C11: with only_accepting_now set every returned row has a non-none
\* minutes_to_close and a status of "open" or "closing soon", and the
\* returned rows are rows accepting now (all of them when there is no
\* limit); with it unset the rows without minutes_to_close are kept: every
\* row that passed the filters is returned when there is no limit.
C11_OnlyAccepting ==
    (pc = "done" /\ out.k = "ok") =>
        IF query.only_accepting_now
        THEN /\ \A i \in 1..Len(out.rows) :
                  /\ NotNa(out.rows[i].minutes_to_close)
                  /\ out.rows[i].reception_status \in {"open", "closing soon"}
             /\ Range(Ids(out.rows)) \subseteq AcceptingIds
             /\ query.limit <= 0 => Range(Ids(out.rows)) = AcceptingIds
        ELSE /\ Range(Ids(out.rows)) \subseteq Range(work_ids.exclude)
             /\ query.limit <= 0 => Range(Ids(out.rows)) = Range(work_ids.exclude)

\* of three rows within the radius, one accepting and two not, only the
\* accepting one is returned
C11_Witness ==
    /\ pc = "done"
    /\ query.only_accepting_now
    /\ query.limit = 0
    /\ Len(work_ids.exclude) = 3
    /\ out.k = "ok"
    /\ Len(out.rows) = 1
    /\ out.rows[1].reception_status = "closing soon"

\* the required-specialty keywords of the query, in the caller's order
Keywords ==
    IF query.dept_keyword = None THEN <<>>
    ELSE IF query.dept_keyword.k = "str" THEN <<query.dept_keyword.s>>
    ELSE query.dept_keyword.v

\* positions of the keywords that occur in the specialty text of row id
Hits(id) ==
    {i \in 1..Len(Keywords) :
        Len(Keywords[i]) > 0 /\ Contains(SpecialtyOf(id), Keywords[i])}

\* index of the first keyword occurring in the specialty text of row id
\* (0 without keywords, 999 when none occurs)
RankOf(id) ==
    IF Len(Keywords) = 0 THEN 0
    ELSE IF Hits(id) = {} THEN 999
    ELSE (CHOOSE i \in Hits(id) : \A j \in Hits(id) : i <= j) - 1

\* a <= b for minutes_to_close cells, an absent one above every number
MinsLeq(a, b) == ~ NotNa(b) \/ (NotNa(a) /\ a.v <= b.v)
MinsEq(a, b) == MinsLeq(a, b) /\ MinsLeq(b, a)

\* row a's key (rank, minutes, distance) is <= row b's
RowKeyLeq(a, b) ==
    \/ RankOf(a.id) < RankOf(b.id)
    \/ /\ RankOf(a.id) = RankOf(b.id)
       /\ \/ ~ MinsLeq(b.minutes_to_close, a.minutes_to_close)
          \/ /\ MinsEq(a.minutes_to_close, b.minutes_to_close)
             /\ a.distance_km <= b.distance_km

\* C12: the returned rows are in ascending order of (priority rank,
\* minutes_to_close with an absent value above every number, distance):
\* each row's key is <= the key of the row after it.
C12_SortedByKey ==
    (pc = "done" /\ out.k = "ok") =>
        \A i \in 1..(Len(out.rows) - 1) : RowKeyLeq(out.rows[i], out.rows[i + 1])

\* three rows of one rank come back in another order than the table's: the
\* one with a number first, then the two without, the nearer one first
C12_Witness ==
    /\ pc = "done"
    /\ query.dept_keyword = None
    /\ out.k = "ok"
    /\ Ids(df.rows) = <<2, 5, 6>>
    /\ Ids(out.rows) = <<5, 6, 2>>
    /\ ~ NotNa(out.rows[2].minutes_to_close)

\* C13: the priority rank of a row is the index of the first keyword, in
\* the caller's order, that occurs in the row's specialty text, and 0 for
\* every row when there are no keywords; a returned row with a lower rank
\* comes before one with a higher rank.
C13_PriorityRank ==
    (pc = "done" /\ out.k = "ok") =>
        /\ \A i \in 1..Len(out.rows) :
              (Len(Keywords) = 0 \/ Hits(out.rows[i].id) # {}) =>
                  _row_dept_priority(out.rows[i], query.dept_keyword)
                      = RankOf(out.rows[i].id)
        /\ \A i, j \in 1..Len(out.rows) :
              (/\ Len(Keywords) > 0
               /\ Hits(out.rows[i].id) # {} /\ Hits(out.rows[j].id) # {}
               /\ RankOf(out.rows[i].id) < RankOf(out.rows[j].id)) => i < j

\* the spec's example with the keywords in the other order: the row whose
\* text holds the first keyword precedes the nearer row holding the second
C13_Witness ==
    /\ pc = "done"
    /\ query.dept_keyword = KwList(<<HIFUKA, NAIKA>>)
    /\ out.k = "ok"
    /\ Ids(df.rows) = <<1, 3, 4>>
    /\ Ids(out.rows) = <<3, 4, 1>>

\* the fully sorted qualifying rows: the result of the same search without
\* a limit
Unlimited ==
    search_clinics_near_point(df, [query EXCEPT !.limit = 0], now,
                              soon_close_threshold_min, soon_start_threshold_min).rows

\* the number of qualifying rows
Qualifying ==
    IF query.only_accepting_now THEN Cardinality(AcceptingIds)
    ELSE Len(work_ids.exclude)

\* C14: with limit > 0 the result is the first min(limit, n) rows of the
\* sorted sequence of the n qualifying rows; with limit <= 0 it is all n.
C14_Limit ==
    (pc = "done" /\ out.k = "ok") =>
        LET n == Qualifying
        IN  /\ Len(Unlimited) = n
            /\ IF query.limit > 0
               THEN out.rows = SubSeq(Unlimited, 1, IF query.limit < n THEN query.limit ELSE n)
               ELSE out.rows = Unlimited

\* three rows qualify and the limit is 2
C14_Witness ==
    /\ pc = "done"
    /\ query.limit = 2
    /\ ~ query.only_accepting_now
    /\ Len(work_ids.exclude) = 3
    /\ out.k = "ok"
    /\ Len(out.rows) = 2

\* C15: for a dataset without the latitude or the longitude column, with or
\* without rows, the search raises the KeyError and returns no table.
C15_MissingCoordinateColumns ==
    (pc = "done" /\ ~ ({"lat", "lng"} \subseteq df.cols)) => out = KeyError

\* the columns the search derives
DerivedCols ==
    {"distance_km", "minutes_to_close", "reception_status",
     "next_reception_start", "next_reception_label"}

\* C16: no search, whether it returns rows, returns nothing or raises,
\* changes the caller's table: rows, columns and cells stay as they were,
\* the table gains no derived column, and the derived columns are filled in
\* the rows of the returned table.
C16_SourceUnchanged ==
    [][ /\ df' = df
        /\ \A i \in 1..Len(df'.rows) : DOMAIN df'.rows[i] \cap DerivedCols = {}
        /\ (pc' = "done" /\ out'.k = "ok") =>
              \A i \in 1..Len(out'.rows) :
                  /\ out'.rows[i].distance_km \in Nat
                  /\ out'.rows[i].reception_status
                        \in {"open", "closing soon", "unknown/closed"} ]_vars

\* after a second search, which returned a row with the latitude the copy
\* had converted to a number, the table still holds the text it held
C16_Witness ==
    /\ pc = "done"
    /\ query.radius_km = 2000000
    /\ out.k = "ok"
    /\ \E i \in 1..Len(out.rows) :
          /\ out.rows[i].id = 2
          /\ out.rows[i].lat.k = "num"
          /\ DatasetRow(2).lat.k = "str"

\* C17: in every returned row with a minutes_to_close the next opening is
\* absent and its label is the empty string.
C17_OpenHasNoNextOpening ==
    (pc = "done" /\ out.k = "ok") =>
        \A i \in 1..Len(out.rows) :
            NotNa(out.rows[i].minutes_to_close) =>
                /\ ~ NotNa(out.rows[i].next_reception_start)
                /\ out.rows[i].next_reception_label = <<>>

\* an open row without next opening beside a closed row with one
C17_Witness ==
    /\ pc = "done"
    /\ out.k = "ok"
    /\ \E i, j \in 1..Len(out.rows) :
          /\ NotNa(out.rows[i].minutes_to_close)
          /\ out.rows[i].next_reception_start = NaT
          /\ out.rows[i].next_reception_label = <<>>
          /\ ~ NotNa(out.rows[j].minutes_to_close)
          /\ NotNa(out.rows[j].next_reception_start)
          /\ out.rows[j].next_reception_label # <<>>

---------------------------------------------------------------------------
(* Claims on the loader (SpecLoad) *)

\* C18: without a file at the path the load raises FileNotFoundError and
\* reads nothing; otherwise it returns the utf-8-sig reading when that
\* succeeds, reads as cp932 only after the utf-8-sig reading has failed,
\* and returns the cp932 reading or raises what that reading raised, with
\* no further attempt.
C18_Load ==
    pc = "done" =>
        IF ~ csv_path.exists
        THEN loaded = FileNotFoundError /\ encodings_tried = <<>>
        ELSE IF read_csv(csv_path.bytes, "utf-8-sig").k = "DataFrame"
        THEN /\ loaded = read_csv(csv_path.bytes, "utf-8-sig")
             /\ loaded.encoding = "utf-8-sig"
             /\ encodings_tried = <<"utf-8-sig">>
        ELSE /\ encodings_tried = <<"utf-8-sig", "cp932">>
             /\ loaded = read_csv(csv_path.bytes, "cp932")
             /\ loaded.k \in {"DataFrame", "UnicodeDecodeError", "EmptyDataError"}
             /\ loaded.k = "DataFrame" => loaded.encoding = "cp932"

\* a file in neither encoding: both readings were tried, in order, and the
\* second one's error came out
C18_Witness ==
    /\ pc = "done"
    /\ csv_path.exists
    /\ csv_path.bytes = <<"41", "EF">>
    /\ encodings_tried = <<"utf-8-sig", "cp932">>
    /\ loaded = UnicodeDecodeError

---------------------------------------------------------------------------
(* Claims on the builder (SpecBuild) *)

\* a cell of the merged table holds a non-empty text
Present(c) == c # NaN /\ c.s # <<>>

\* C19: in every row of the merged table, for each of the eight day
\* categories, the start and the end are both present or both absent.
C19_StartEndPaired ==
    (pc = "done") =>
        \A i \in 1..Len(merged) : \A day \in DaySet :
            Present(merged[i].st[day]) <=> Present(merged[i].ed[day])

---------------------------------------------------------------------------
(* Claims on the calls of the search from app.py (SpecApp) *)

MentalHealth == {SHINRYONAIKA, SEISHINKA, MENTARU}

\* the guessed keywords hold one of the three mental-health keywords
AsksMentalHealth ==
    /\ dept_keywords # None
    /\ \E i \in 1..Len(dept_keywords.v) : dept_keywords.v[i] \in MentalHealth

\* the excluded-specialty keywords the last call passed
PassedExclude ==
    IF query.exclude_dept_keywords = None THEN <<>> ELSE query.exclude_dept_keywords.v

\* C20: _build_exclude_depts gives no keyword when one of the desired
\* keywords is 心療内科, 精神科 or メンタル and those three otherwise; each
\* call of the search from app.py passes exactly those keywords as the
\* excluded specialties, so none of the three when one of them is desired.
C20_ExcludeDeptsPassed ==
    call_site # "none" =>
        /\ _build_exclude_depts(dept_keywords) =
              IF AsksMentalHealth THEN <<>> ELSE <<SHINRYONAIKA, SEISHINKA, MENTARU>>
        /\ PassedExclude =
              IF AsksMentalHealth THEN <<>> ELSE <<SHINRYONAIKA, SEISHINKA, MENTARU>>
        /\ query.dept_keyword = dept_keywords
        /\ AsksMentalHealth =>
              \A i \in 1..Len(PassedExclude) : PassedExclude[i] \notin MentalHealth

\* 内科 and 心療内科 are desired: the block of a row of the merged view
\* passes no exclusion and the 心療内科 clinic is found
C20_Witness ==
    /\ pc = "done"
    /\ call_site = "block of a row"
    /\ dept_keywords = KwList(<<NAIKA, SHINRYONAIKA>>)
    /\ query.exclude_dept_keywords = None
    /\ out.k = "ok"
    /\ Ids(out.rows) = <<2>>

---------------------------------------------------------------------------
(* Claims on the rank of the rows that reach the sort (SpecKeywords) *)

\* C21: when keywords are supplied, every row that passed the include
\* filter and reaches the sort has a priority rank in
\* 0..(number of keywords - 1); the rank 999 is never assigned.
C21_RankWithinKeywords ==
    (pc = "done" /\ out.k = "ok" /\ Len(Keywords) > 0) =>
        \A i \in 1..Len(out.rows) :
            /\ _row_dept_priority(out.rows[i], query.dept_keyword) # 999
            /\ _row_dept_priority(out.rows[i], query.dept_keyword)
                  \in 0..(Len(Keywords) - 1)

---------------------------------------------------------------------------
(* Claims on the wizard (SpecWizard) *)

\* the wizard at its start: step 1, no session-expired flag, the session
\* fields at their defaults and nothing else kept, no step in the URL
AtStart ==
    /\ session_state["step"] = IntVal(1)
    /\ ~Expired
    /\ DOMAIN session_state = DOMAIN Defaults
    /\ \A key \in DOMAIN Defaults : session_state[key] = Defaults[key]
    /\ "step" \notin DOMAIN query_params

\* C22: one press of a "start over" button, on step 3 or on the
\* session-expired screen, leaves the wizard after the rerun on step 1
\* with the session-expired flag unset, every session field at its default
\* and the step query parameter removed.
C22_StartOverOnce ==
    [][pressed' \in {"start over (step 3)", "start over (expired)"}
          => AtStart']_vars

====
